---- MODULE Spec2Model ----
(***************************************************************************)
(* Model of the RB Cyber Health Check report builder                       *)
(* (src/report_builder.py, driven by src/rbapp1.py).                       *)
(*                                                                         *)
(* Python values are tagged records:                                       *)
(*   None  [t |-> "none"]            bool  [t |-> "bool", b |-> TRUE]      *)
(*   int   [t |-> "int", n |-> 7]    str   [t |-> "str", s |-> <<chars>>]  *)
(*   list  [t |-> "list", xs |-> <<values>>]                               *)
(*   dict  [t |-> "dict", kv |-> << <<key, value>>, ... >>]                *)
(* A str is the sequence of its characters, a dict keeps its insertion     *)
(* order, a text is the sequence of its characters.                        *)
(***************************************************************************)
EXTENDS Integers, Sequences, FiniteSets, TLC

VARIABLES pc, text_hibp, text_ssl, hibp, ssl, findings, error,
          request, today, files, layout, pdf_bytes, download, history, sessions

vars == <<pc, text_hibp, text_ssl, hibp, ssl, findings, error,
          request, today, files, layout, pdf_bytes, download, history, sessions>>

(***************************************************************************)
(* String literals of the source, as character sequences.                  *)
(***************************************************************************)
K_date == <<"$", "d", "a", "t", "e">>
K_numberLong == <<"$", "n", "u", "m", "b", "e", "r", "L", "o", "n", "g">>
K_summary == <<"s", "u", "m", "m", "a", "r", "y">>
K_breaches_found == <<"b", "r", "e", "a", "c", "h", "e", "s", "_", "f", "o", "u", "n", "d">>
K_pastes_found == <<"p", "a", "s", "t", "e", "s", "_", "f", "o", "u", "n", "d">>
K_is_pwned == <<"i", "s", "_", "p", "w", "n", "e", "d">>
K_raw == <<"r", "a", "w">>
K_breaches == <<"b", "r", "e", "a", "c", "h", "e", "s">>
K_Name == <<"N", "a", "m", "e">>
K_email == <<"e", "m", "a", "i", "l">>
K_scanned_at == <<"s", "c", "a", "n", "n", "e", "d", "_", "a", "t">>
K_grade == <<"g", "r", "a", "d", "e">>
K_domain == <<"d", "o", "m", "a", "i", "n">>
K_host == <<"h", "o", "s", "t">>
K_ip_address == <<"i", "p", "_", "a", "d", "d", "r", "e", "s", "s">>
K_endpoints == <<"e", "n", "d", "p", "o", "i", "n", "t", "s">>
K_details == <<"d", "e", "t", "a", "i", "l", "s">>
K_protocols == <<"p", "r", "o", "t", "o", "c", "o", "l", "s">>
K_name == <<"n", "a", "m", "e">>
K_version == <<"v", "e", "r", "s", "i", "o", "n">>
K_vulnBeast == <<"v", "u", "l", "n", "B", "e", "a", "s", "t">>
K_ocspStapling == <<"o", "c", "s", "p", "S", "t", "a", "p", "l", "i", "n", "g">>
K_supportsRc4 == <<"s", "u", "p", "p", "o", "r", "t", "s", "R", "c", "4">>
S_NA == <<"N", "/", "A">>
S_None == <<"N", "o", "n", "e">>
S_True == <<"T", "r", "u", "e">>
S_False == <<"F", "a", "l", "s", "e">>
S_TLS == <<"T", "L", "S">>
S_Aplus == <<"A", "+">>
S_A == <<"A">>
S_10 == <<"1", ".", "0">>
S_11 == <<"1", ".", "1">>
S_CommaSpace == <<",", " ">>

(***************************************************************************)
(* Python values.                                                          *)
(***************************************************************************)
VNone == [t |-> "none"]
VBool(b) == [t |-> "bool", b |-> b]
VInt(n) == [t |-> "int", n |-> n]
VStr(s) == [t |-> "str", s |-> s]
VList(xs) == [t |-> "list", xs |-> xs]
VDict(kv) == [t |-> "dict", kv |-> kv]

IsDict(v) == v.t = "dict"
IsList(v) == v.t = "list"
IsStr(v) == v.t = "str"

\* key in d
HasKey(d, k) == \E i \in 1..Len(d.kv) : d.kv[i][1] = k

\* d[k], for a key d has
Item(d, k) == d.kv[CHOOSE i \in 1..Len(d.kv) : d.kv[i][1] = k][2]

\* d.get(k, default) on a dict d
Get(d, k, default) == IF HasKey(d, k) THEN Item(d, k) ELSE default

\* d[k] = v on a dict's items: a key already there keeps its place
DictSet(kv, k, v) ==
    IF \E i \in 1..Len(kv) : kv[i][1] = k
    THEN [i \in 1..Len(kv) |-> IF kv[i][1] = k THEN <<k, v>> ELSE kv[i]]
    ELSE Append(kv, <<k, v>>)

\* Python truth value: bool(v), and the test of `v or w`
Truthy(v) ==
    CASE v.t = "none" -> FALSE
      [] v.t = "bool" -> v.b
      [] v.t = "int" -> v.n # 0
      [] v.t = "str" -> Len(v.s) > 0
      [] v.t = "list" -> Len(v.xs) > 0
      [] v.t = "dict" -> Len(v.kv) > 0

\* v or w
Or(v, w) == IF Truthy(v) THEN v ELSE w

(***************************************************************************)
(* Characters.                                                             *)
(***************************************************************************)
Digits == {"0", "1", "2", "3", "4", "5", "6", "7", "8", "9"}

DigitVal(c) ==
    CASE c = "0" -> 0 [] c = "1" -> 1 [] c = "2" -> 2 [] c = "3" -> 3
      [] c = "4" -> 4 [] c = "5" -> 5 [] c = "6" -> 6 [] c = "7" -> 7
      [] c = "8" -> 8 [] c = "9" -> 9

DigitChar(n) ==
    CASE n = 0 -> "0" [] n = 1 -> "1" [] n = 2 -> "2" [] n = 3 -> "3"
      [] n = 4 -> "4" [] n = 5 -> "5" [] n = 6 -> "6" [] n = 7 -> "7"
      [] n = 8 -> "8" [] n = 9 -> "9"

\* the whitespace of str.strip() and of the JSON grammar, within the alphabet
IsSpace(c) == c \in {" ", "\t", "\n", "\r"}

\* s[i:i+1], "" past the end
CharAt(s, i) == IF i >= 1 /\ i <= Len(s) THEN s[i] ELSE ""

\* s[i:].startswith(lit)
MatchAt(s, i, lit) ==
    /\ i + Len(lit) - 1 <= Len(s)
    /\ \A k \in 1..Len(lit) : s[i + k - 1] = lit[k]

\* lit in s
Contains(s, lit) == \E i \in 1..(Len(s) + 1) : MatchAt(s, i, lit)

\* text.find("{"), 1-based; 0 stands for Python's -1
Find(text, c) ==
    IF \E i \in 1..Len(text) : text[i] = c
    THEN CHOOSE i \in 1..Len(text) :
            text[i] = c /\ \A j \in 1..(i - 1) : text[j] # c
    ELSE 0

(***************************************************************************)
(* json.loads: the recursive-descent scanner of the standard library, for  *)
(* objects, arrays, strings with the simple escapes, integers and the      *)
(* three literals.  A result is [ok |-> TRUE, v |-> value, i |-> next] or  *)
(* [ok |-> FALSE].                                                         *)
(***************************************************************************)
Fail == [ok |-> FALSE]
Ok(v, i) == [ok |-> TRUE, v |-> v, i |-> i]

RECURSIVE SkipWs(_, _)
SkipWs(s, i) == IF i <= Len(s) /\ IsSpace(s[i]) THEN SkipWs(s, i + 1) ELSE i

Unescape(c) ==
    CASE c = "\"" -> "\"" [] c = "\\" -> "\\" [] c = "/" -> "/"
      [] c = "n" -> "\n" [] c = "t" -> "\t" [] c = "r" -> "\r"

\* the characters of a string literal, from the one after its opening quote
RECURSIVE ScanString(_, _, _)
ScanString(s, i, acc) ==
    IF i > Len(s) THEN Fail
    ELSE IF s[i] = "\"" THEN Ok(acc, i + 1)
    ELSE IF s[i] = "\\"
         THEN IF CharAt(s, i + 1) \in {"\"", "\\", "/", "n", "t", "r"}
              THEN ScanString(s, i + 2, Append(acc, Unescape(s[i + 1])))
              ELSE Fail
    ELSE IF s[i] \in {"\n", "\t", "\r"} THEN Fail
    ELSE ScanString(s, i + 1, Append(acc, s[i]))

RECURSIVE ScanDigits(_, _, _)
ScanDigits(s, i, n) ==
    IF CharAt(s, i) \in Digits
    THEN ScanDigits(s, i + 1, 10 * n + DigitVal(s[i]))
    ELSE Ok(n, i)

\* -?(0|[1-9][0-9]*)
ScanNumber(s, i) ==
    LET neg == CharAt(s, i) = "-"
        j == IF neg THEN i + 1 ELSE i
        r == IF CharAt(s, j) = "0" THEN Ok(0, j + 1)
             ELSE IF CharAt(s, j) \in Digits THEN ScanDigits(s, j, 0)
             ELSE Fail
    IN IF r.ok THEN Ok(VInt(IF neg THEN 0 - r.v ELSE r.v), r.i) ELSE Fail

RECURSIVE ScanValue(_, _)
RECURSIVE ScanMembers(_, _, _)
RECURSIVE ScanElements(_, _, _)

\* the members of an object, from the opening quote of a key
ScanMembers(s, i, acc) ==
    LET k == ScanString(s, i + 1, <<>>)
    IN IF ~k.ok THEN Fail
       ELSE LET c == SkipWs(s, k.i)
            IN IF CharAt(s, c) # ":" THEN Fail
               ELSE LET v == ScanValue(s, SkipWs(s, c + 1))
                    IN IF ~v.ok THEN Fail
                       ELSE LET e == SkipWs(s, v.i)
                                acc2 == DictSet(acc, k.v, v.v)
                            IN IF CharAt(s, e) = "}" THEN Ok(VDict(acc2), e + 1)
                               ELSE IF CharAt(s, e) # "," THEN Fail
                               ELSE LET n == SkipWs(s, e + 1)
                                    IN IF CharAt(s, n) = "\""
                                       THEN ScanMembers(s, n, acc2)
                                       ELSE Fail

\* the elements of an array, from the first character of an element
ScanElements(s, i, acc) ==
    LET v == ScanValue(s, i)
    IN IF ~v.ok THEN Fail
       ELSE LET e == SkipWs(s, v.i)
                acc2 == Append(acc, v.v)
            IN IF CharAt(s, e) = "]" THEN Ok(VList(acc2), e + 1)
               ELSE IF CharAt(s, e) # "," THEN Fail
               ELSE ScanElements(s, SkipWs(s, e + 1), acc2)

ScanValue(s, i) ==
    LET c == CharAt(s, i)
    IN IF c = "\"" THEN
            LET r == ScanString(s, i + 1, <<>>)
            IN IF r.ok THEN Ok(VStr(r.v), r.i) ELSE Fail
       ELSE IF c = "{" THEN
            LET j == SkipWs(s, i + 1)
            IN IF CharAt(s, j) = "}" THEN Ok(VDict(<<>>), j + 1)
               ELSE IF CharAt(s, j) = "\"" THEN ScanMembers(s, j, <<>>)
               ELSE Fail
       ELSE IF c = "[" THEN
            LET j == SkipWs(s, i + 1)
            IN IF CharAt(s, j) = "]" THEN Ok(VList(<<>>), j + 1)
               ELSE ScanElements(s, j, <<>>)
       ELSE IF MatchAt(s, i, <<"n", "u", "l", "l">>) THEN Ok(VNone, i + 4)
       ELSE IF MatchAt(s, i, <<"t", "r", "u", "e">>) THEN Ok(VBool(TRUE), i + 4)
       ELSE IF MatchAt(s, i, <<"f", "a", "l", "s", "e">>) THEN Ok(VBool(FALSE), i + 5)
       ELSE IF c = "-" \/ c \in Digits THEN ScanNumber(s, i)
       ELSE Fail

\* json.loads(s): one value between optional whitespace, nothing after it
json_loads(s) ==
    LET r == ScanValue(s, SkipWs(s, 1))
    IN IF ~r.ok THEN Fail
       ELSE IF SkipWs(s, r.i) # Len(s) + 1 THEN Fail
       ELSE [ok |-> TRUE, v |-> r.v]

(***************************************************************************)
(* int(), str(), repr() and str.strip() of the Python values.              *)
(***************************************************************************)
RECURSIVE LStrip(_)
LStrip(s) == IF Len(s) > 0 /\ IsSpace(s[1]) THEN LStrip(Tail(s)) ELSE s

RECURSIVE RStrip(_)
RStrip(s) ==
    IF Len(s) > 0 /\ IsSpace(s[Len(s)]) THEN RStrip(SubSeq(s, 1, Len(s) - 1)) ELSE s

\* s.strip()
Strip(s) == RStrip(LStrip(s))

\* the value of a run of digits and underscores
RECURSIVE DigitsValue(_, _)
DigitsValue(s, n) ==
    IF Len(s) = 0 THEN n
    ELSE IF s[1] = "_" THEN DigitsValue(Tail(s), n)
    ELSE DigitsValue(Tail(s), 10 * n + DigitVal(s[1]))

\* int(s) of a str: optional whitespace, optional sign, digits that single
\* underscores may separate
IntOfStr(s) ==
    LET u == Strip(s)
        signed == Len(u) > 0 /\ u[1] \in {"+", "-"}
        body == IF signed THEN Tail(u) ELSE u
        wellFormed ==
            /\ Len(body) > 0
            /\ \A i \in 1..Len(body) : body[i] \in Digits \cup {"_"}
            /\ body[1] # "_" /\ body[Len(body)] # "_"
            /\ \A i \in 1..(Len(body) - 1) : ~(body[i] = "_" /\ body[i + 1] = "_")
    IN IF ~wellFormed THEN [ok |-> FALSE]
       ELSE [ok |-> TRUE,
             n |-> IF signed /\ u[1] = "-" THEN 0 - DigitsValue(body, 0)
                   ELSE DigitsValue(body, 0)]

\* int(v): ValueError or TypeError is ok = FALSE
PyInt(v) ==
    CASE v.t = "int" -> [ok |-> TRUE, n |-> v.n]
      [] v.t = "bool" -> [ok |-> TRUE, n |-> IF v.b THEN 1 ELSE 0]
      [] v.t = "str" -> IntOfStr(v.s)
      [] OTHER -> [ok |-> FALSE]

RECURSIVE NatToStr(_)
NatToStr(n) == IF n < 10 THEN <<DigitChar(n)>> ELSE Append(NatToStr(n \div 10), DigitChar(n % 10))

\* str(n) of an int
IntToStr(n) == IF n < 0 THEN <<"-">> \o NatToStr(0 - n) ELSE NatToStr(n)

\* the body of repr(s) of a str: its characters, the special ones escaped
RECURSIVE EscapeRepr(_, _)
EscapeRepr(s, q) ==
    IF Len(s) = 0 THEN <<>>
    ELSE (CASE s[1] = "\\" -> <<"\\", "\\">>
            [] s[1] = "\n" -> <<"\\", "n">>
            [] s[1] = "\t" -> <<"\\", "t">>
            [] s[1] = "\r" -> <<"\\", "r">>
            [] s[1] = q -> <<"\\", q>>
            [] OTHER -> <<s[1]>>) \o EscapeRepr(Tail(s), q)

\* repr(s) of a str
StrRepr(s) ==
    LET hasSingle == \E i \in 1..Len(s) : s[i] = "'"
        hasDouble == \E i \in 1..Len(s) : s[i] = "\""
        q == IF hasSingle /\ ~hasDouble THEN "\"" ELSE "'"
    IN <<q>> \o EscapeRepr(s, q) \o <<q>>

\* sep.join(strs) of a sequence of character sequences
RECURSIVE Join(_, _)
Join(sep, strs) ==
    IF Len(strs) = 0 THEN <<>>
    ELSE IF Len(strs) = 1 THEN strs[1]
    ELSE strs[1] \o sep \o Join(sep, Tail(strs))

\* repr(v)
RECURSIVE PyRepr(_)
PyRepr(v) ==
    CASE v.t = "none" -> S_None
      [] v.t = "bool" -> IF v.b THEN S_True ELSE S_False
      [] v.t = "int" -> IntToStr(v.n)
      [] v.t = "str" -> StrRepr(v.s)
      [] v.t = "list" ->
            <<"[">> \o Join(S_CommaSpace, [i \in 1..Len(v.xs) |-> PyRepr(v.xs[i])]) \o <<"]">>
      [] v.t = "dict" ->
            <<"{">> \o Join(S_CommaSpace,
                           [i \in 1..Len(v.kv) |->
                               StrRepr(v.kv[i][1]) \o <<":", " ">> \o PyRepr(v.kv[i][2])])
                   \o <<"}">>

\* str(v), which is also format(v, "") in an f-string
PyStr(v) == IF v.t = "str" THEN v.s ELSE PyRepr(v)

(***************************************************************************)
(* The normalizer.                                                         *)
(***************************************************************************)
\* _strip_to_json before the guard on find was there: text[text.find("{"):]
\* with find = -1 is the last character of the text
strip_unguarded(text) ==
    LET i == Find(text, "{")
    IN IF i = 0
       THEN [ok |-> TRUE, v |-> IF Len(text) = 0 THEN <<>> ELSE <<text[Len(text)]>>]
       ELSE [ok |-> TRUE, v |-> SubSeq(text, i + 1, Len(text))]

\* no stripping at all
strip_nothing(text) ==
    IF Find(text, "{") = 0 THEN [ok |-> FALSE] ELSE [ok |-> TRUE, v |-> text]

_strip_to_json(text) ==
    LET i == Find(text, "{")
    IN IF i = 0 THEN [ok |-> FALSE]
       ELSE [ok |-> TRUE, v |-> SubSeq(text, i, Len(text))]

\* the wrapper test without the key count
is_wrapper_any_size(obj, key) == HasKey(obj, key)

\* `key in obj and len(obj) == 1`
is_wrapper(obj, key) == HasKey(obj, key) /\ Len(obj.kv) = 1

\* the $numberLong value kept as it is, never converted
unwrap_numberLong_raw(v) == v

\* try: int(v)  except Exception: v
unwrap_numberLong(v) ==
    LET r == PyInt(v) IN IF r.ok THEN VInt(r.n) ELSE v

RECURSIVE _normalize_extended_json(_)
_normalize_extended_json(obj) ==
    IF IsDict(obj) THEN
        IF is_wrapper(obj, K_date) THEN Item(obj, K_date)
        ELSE IF is_wrapper(obj, K_numberLong) THEN unwrap_numberLong(Item(obj, K_numberLong))
        ELSE VDict([i \in 1..Len(obj.kv) |->
                        <<obj.kv[i][1], _normalize_extended_json(obj.kv[i][2])>>])
    ELSE IF IsList(obj) THEN
        VList([i \in 1..Len(obj.xs) |-> _normalize_extended_json(obj.xs[i])])
    ELSE obj

\* [ok |-> TRUE, v |-> tree], or the exception raised
load_json_from_text(text) ==
    LET raw == _strip_to_json(text)
    IN IF ~raw.ok THEN [ok |-> FALSE, err |-> "ValueError"]
       ELSE LET data == json_loads(raw.v)
            IN IF ~data.ok THEN [ok |-> FALSE, err |-> "JSONDecodeError"]
               ELSE [ok |-> TRUE, v |-> _normalize_extended_json(data.v)]

(***************************************************************************)
(* build_findings.  A result is [ok |-> TRUE, v |-> <<the findings>>] or   *)
(* [ok |-> FALSE, err |-> the exception raised].                           *)
(***************************************************************************)
Raise(e) == [ok |-> FALSE, err |-> e]

Finding(number, title, status, headline, summary, details) ==
    [number |-> number, title |-> title, status |-> status,
     headline |-> headline, summary |-> summary, details |-> details]

\* the elements a for loop or a comprehension draws from v: a str gives its
\* characters, a dict its keys, and None, an int or a bool raises TypeError
Iter(v) ==
    CASE v.t = "list" -> [ok |-> TRUE, xs |-> v.xs]
      [] v.t = "str" -> [ok |-> TRUE, xs |-> [i \in 1..Len(v.s) |-> VStr(<<v.s[i]>>)]]
      [] v.t = "dict" -> [ok |-> TRUE, xs |-> [i \in 1..Len(v.kv) |-> VStr(v.kv[i][1])]]
      [] OTHER -> [ok |-> FALSE]

\* int(v or 0)
int_or_zero(v) ==
    LET r == PyInt(Or(v, VInt(0)))
    IN IF r.ok THEN r
       ELSE Raise(IF v.t = "str" THEN "ValueError" ELSE "TypeError")

\* the names of the entries of breaches, the empty and missing ones kept
breach_names_unfiltered(xs) ==
    LET dicts == SelectSeq(xs, IsDict)
    IN [i \in 1..Len(dicts) |-> Get(dicts[i], K_Name, VStr(<<>>))]

\* [b.get("Name") for b in ... if isinstance(b, dict)], then [x for x in breaches if x]
breach_names(xs) ==
    LET dicts == SelectSeq(xs, IsDict)
        names == [i \in 1..Len(dicts) |-> Get(dicts[i], K_Name, VNone)]
    IN SelectSeq(names, Truthy)

status_1_inverted(is_pwned) == IF is_pwned THEN "PASS" ELSE "RISK"

status_1(is_pwned) == IF is_pwned THEN "RISK" ELSE "PASS"

headline_1(is_pwned) == IF is_pwned THEN "Bad News!" ELSE "Great News!"

summary_1(is_pwned) ==
    "Our dark web research indicates your email address "
        \o (IF is_pwned THEN "has" ELSE "has not") \o " been recorded as part of "
        \o (IF is_pwned THEN "one or more" ELSE "any") \o " data breaches."

\* 1) Account compromise (HIBP)
finding_1(hibp_doc) ==
    IF ~IsDict(hibp_doc) THEN Raise("AttributeError")
    ELSE LET hibp_summary == Get(hibp_doc, K_summary, VDict(<<>>))
    IN IF ~IsDict(hibp_summary) THEN Raise("AttributeError")
    ELSE LET breaches_found == int_or_zero(Get(hibp_summary, K_breaches_found, VInt(0)))
    IN IF ~breaches_found.ok THEN breaches_found
    ELSE LET pastes_found == int_or_zero(Get(hibp_summary, K_pastes_found, VInt(0)))
    IN IF ~pastes_found.ok THEN pastes_found
    ELSE LET is_pwned == Truthy(Get(hibp_summary, K_is_pwned, VBool(FALSE)))
             raw == Get(hibp_doc, K_raw, VDict(<<>>))
    IN IF ~IsDict(raw) THEN Raise("AttributeError")
    ELSE LET it == Iter(Or(Get(raw, K_breaches, VNone), VList(<<>>)))
    IN IF ~it.ok THEN Raise("TypeError")
    ELSE LET breaches == breach_names(it.xs)
    IN IF \E i \in 1..Len(breaches) : ~IsStr(breaches[i]) THEN Raise("TypeError")
    ELSE [ok |-> TRUE,
          v |-> Finding(1, "Account compromise", status_1(is_pwned), headline_1(is_pwned),
                    summary_1(is_pwned),
                    << <<"Email", VStr(PyStr(Get(hibp_doc, K_email, VStr(S_NA))))>>,
                       <<"Breaches found", VStr(IntToStr(breaches_found.n))>>,
                       <<"Pastes found", VStr(IntToStr(pastes_found.n))>>,
                       <<"Breaches",
                         VStr(IF Len(breaches) > 0
                              THEN Join(S_CommaSpace, [i \in 1..Len(breaches) |-> breaches[i].s])
                              ELSE S_None)>>,
                       <<"Scan date", VStr(PyStr(Get(hibp_doc, K_scanned_at, VStr(S_NA))))>> >>)]

\* the grade test with the N/A branch left out
grade_status_two_way(grade) ==
    IF grade \in {VStr(S_Aplus), VStr(S_A)} THEN "PASS" ELSE "RISK"

\* if grade in ("A+", "A") ... elif grade == "N/A" ... else ...
grade_status(grade) ==
    IF grade \in {VStr(S_Aplus), VStr(S_A)} THEN "PASS"
    ELSE IF grade = VStr(S_NA) THEN "N/A"
    ELSE "RISK"

grade_headline(grade) ==
    IF grade \in {VStr(S_Aplus), VStr(S_A)} THEN "Great News!"
    ELSE IF grade = VStr(S_NA) THEN "N/A"
    ELSE "Bad News!"

grade_summary(grade) ==
    IF grade \in {VStr(S_Aplus), VStr(S_A)}
    THEN "Our research indicates your website has a strong TLS configuration."
    ELSE IF grade = VStr(S_NA)
    THEN "No SSL Labs grade was available in the provided data."
    ELSE "Our research indicates your website TLS grade is below A, which may increase exposure to attack."

\* f"{p.get('name', 'TLS')} {p.get('version', '')}".strip()
protocol_name(p) ==
    Strip(PyStr(Get(p, K_name, VStr(S_TLS))) \o <<" ">> \o PyStr(Get(p, K_version, VStr(<<>>))))

\* the names of the entries of protocols that are dicts, in order
protocol_names_of(xs) ==
    LET dicts == SelectSeq(xs, IsDict)
    IN [i \in 1..Len(dicts) |-> protocol_name(dicts[i])]

\* ", ".join(protocol_names) if protocol_names else "N/A"
protocol_list(protocol_names) ==
    IF Len(protocol_names) > 0 THEN Join(S_CommaSpace, protocol_names) ELSE S_NA

\* the flag rendered without the None test
flag_text_no_default(details_obj, flag) == VStr(PyStr(Get(details_obj, flag, VNone)))

\* str(details_obj.get(flag)) if details_obj.get(flag) is not None else "N/A"
flag_text(details_obj, flag) ==
    LET v == Get(details_obj, flag, VNone)
    IN IF v # VNone THEN VStr(PyStr(v)) ELSE VStr(S_NA)

\* the first endpoint's details: [ok |-> TRUE, v |-> details_obj] or the exception
details_of(ssl_doc) ==
    LET raw == Or(Get(ssl_doc, K_raw, VDict(<<>>)), VDict(<<>>))
    IN IF ~IsDict(raw) THEN Raise("AttributeError")
    ELSE LET endpoints == Or(Get(raw, K_endpoints, VNone), VList(<<>>))
    IN IF endpoints.t = "dict" /\ Truthy(endpoints) THEN Raise("KeyError")
    ELSE IF endpoints.t \in {"int", "bool"} /\ Truthy(endpoints) THEN Raise("TypeError")
    ELSE LET ep0 == IF ~Truthy(endpoints) THEN VDict(<<>>)
                    ELSE IF endpoints.t = "list" THEN endpoints.xs[1]
                    ELSE VStr(<<endpoints.s[1]>>)
         IN [ok |-> TRUE,
             v |-> IF IsDict(ep0) THEN Or(Get(ep0, K_details, VNone), VDict(<<>>))
                   ELSE VDict(<<>>)]

\* the domain without the fallback to raw.host
domain_of_no_host(ssl_doc) ==
    [ok |-> TRUE, v |-> Or(Get(ssl_doc, K_domain, VNone), VStr(S_NA))]

\* ssl.get("domain") or ssl.get("raw", {}).get("host") or "N/A"
domain_of(ssl_doc) ==
    LET d == Get(ssl_doc, K_domain, VNone)
    IN IF Truthy(d) THEN [ok |-> TRUE, v |-> d]
       ELSE LET raw == Get(ssl_doc, K_raw, VDict(<<>>))
            IN IF ~IsDict(raw) THEN Raise("AttributeError")
               ELSE [ok |-> TRUE, v |-> Or(Get(raw, K_host, VNone), VStr(S_NA))]

\* 2) Website encryption (SSL Labs): the finding and the protocol names
finding_2(ssl_doc) ==
    IF ~IsDict(ssl_doc) THEN Raise("AttributeError")
    ELSE LET grade == Or(Get(ssl_doc, K_grade, VNone), VStr(S_NA))
             domain == domain_of(ssl_doc)
    IN IF ~domain.ok THEN domain
    ELSE LET ip_addr == Or(Get(ssl_doc, K_ip_address, VNone), VStr(S_NA))
             scanned_at == Or(Get(ssl_doc, K_scanned_at, VNone), VStr(S_NA))
             details_obj == details_of(ssl_doc)
    IN IF ~details_obj.ok THEN details_obj
    ELSE IF ~IsDict(details_obj.v) THEN Raise("AttributeError")
    ELSE LET it == Iter(Or(Get(details_obj.v, K_protocols, VNone), VList(<<>>)))
    IN IF ~it.ok THEN Raise("TypeError")
    ELSE LET protocol_names == protocol_names_of(it.xs)
    IN [ok |-> TRUE,
        names |-> protocol_names,
        v |-> Finding(2, "Website encryption", grade_status(grade), grade_headline(grade),
                  grade_summary(grade),
                  << <<"Domain", domain.v>>,
                     <<"IP address", ip_addr>>,
                     <<"Overall grade", VStr(PyStr(grade))>>,
                     <<"Supported protocols", VStr(protocol_list(protocol_names))>>,
                     <<"BEAST vulnerability flag", flag_text(details_obj.v, K_vulnBeast)>>,
                     <<"OCSP stapling", flag_text(details_obj.v, K_ocspStapling)>>,
                     <<"RC4 supported", flag_text(details_obj.v, K_supportsRc4)>>,
                     <<"Scan date", VStr(PyStr(scanned_at))>> >>)]

\* any("1.0" in x for x in protocol_names)
has_tls10(protocol_names) ==
    \E i \in 1..Len(protocol_names) : Contains(protocol_names[i], S_10)

\* the 1.1 test forgotten
has_tls11_never(protocol_names) == FALSE

\* any("1.1" in x for x in protocol_names)
has_tls11(protocol_names) ==
    \E i \in 1..Len(protocol_names) : Contains(protocol_names[i], S_11)

legacy(protocol_names) == has_tls10(protocol_names) \/ has_tls11(protocol_names)

legacy_status(protocol_names) ==
    IF Len(protocol_names) = 0 THEN "N/A"
    ELSE IF legacy(protocol_names) THEN "RISK" ELSE "PASS"

legacy_headline(protocol_names) ==
    IF Len(protocol_names) = 0 THEN "N/A"
    ELSE IF legacy(protocol_names) THEN "Bad News!" ELSE "Great News!"

legacy_summary(protocol_names) ==
    IF Len(protocol_names) = 0
    THEN "No protocol information was available in the provided data."
    ELSE IF legacy(protocol_names)
    THEN "Our research indicates your website supports legacy TLS versions (1.0/1.1), which can reduce transport security."
    ELSE "Our research indicates your website does not advertise legacy TLS 1.0/1.1 support."

\* str(flag) also when there are no protocol names
legacy_flag_text_always(protocol_names, flag) == VStr(IF flag THEN S_True ELSE S_False)

\* str(flag) if protocol_names else "N/A"
legacy_flag_text(protocol_names, flag) ==
    IF Len(protocol_names) > 0 THEN VStr(IF flag THEN S_True ELSE S_False) ELSE VStr(S_NA)

\* 3) Legacy TLS (1.0/1.1)
finding_3(protocol_names) ==
    Finding(3, "Website encryption downgrade (legacy TLS)", legacy_status(protocol_names),
        legacy_headline(protocol_names), legacy_summary(protocol_names),
        << <<"TLS 1.0 supported", legacy_flag_text(protocol_names, has_tls10(protocol_names))>>,
           <<"TLS 1.1 supported", legacy_flag_text(protocol_names, has_tls11(protocol_names))>>,
           <<"Supported protocols", VStr(protocol_list(protocol_names))>> >>)

\* the list without its last finding
findings_list_short(f1, f2, f3) == <<f1, f2>>

\* findings after the three appends
findings_list(f1, f2, f3) == <<f1, f2, f3>>

build_findings(hibp_doc, ssl_doc) ==
    LET f1 == finding_1(hibp_doc)
    IN IF ~f1.ok THEN f1
       ELSE LET f2 == finding_2(ssl_doc)
            IN IF ~f2.ok THEN f2
               ELSE [ok |-> TRUE, v |-> findings_list(f1.v, f2.v, finding_3(f2.names))]

(***************************************************************************)
(* The document engine.  A text is the sequence of its parts: Lit for a    *)
(* piece written in the source, a Python str for an interpolated value.    *)
(* Fonts, sizes, positions and table styles are left out.                  *)
(***************************************************************************)
Lit(s) == [t |-> "lit", lit |-> s]

\* f"{v}"
Fmt(v) == VStr(PyStr(v))

Paragraph(text, style) == [kind |-> "Paragraph", text |-> text, style |-> style]
Spacer == [kind |-> "Spacer"]
PageBreak == [kind |-> "PageBreak"]
Table(rows) == [kind |-> "Table", rows |-> rows]
KeepTogether(flowable) == [kind |-> "KeepTogether", content |-> flowable]

\* _status_color without its last return
status_color_two_way(status) ==
    IF status = "PASS" THEN "#2E7D32" ELSE "#C62828"

_status_color(status) ==
    IF status = "PASS" THEN "#2E7D32"
    ELSE IF status = "RISK" THEN "#C62828"
    ELSE "#616161"

\* Color.hexval() of the three colours: "0x" and the six digits in lower case
hexval(color) ==
    CASE color = "#2E7D32" -> "0x2e7d32"
      [] color = "#C62828" -> "0xc62828"
      [] color = "#616161" -> "0x616161"

cover(business_name) ==
    << Spacer,
       Paragraph(<<Lit("Cyber Health Check Report")>>, "H1"),
       Paragraph(<<business_name>>, "H1"),
       PageBreak >>

\* the contents table as it would be for a report of two findings
contents_data_two_findings ==
    << <<Lit("Summary"), Lit("3")>>,
       <<Lit("Information to Support NCSC Early Warning"), Lit("4")>>,
       <<Lit("High-Level Report Findings"), Lit("5")>>,
       <<Lit("Aim and Importance"), Lit("8")>>,
       <<Lit("Considerations"), Lit("16")>> >>

contents_data ==
    << <<Lit("Summary"), Lit("3")>>,
       <<Lit("Information to Support NCSC Early Warning"), Lit("4")>>,
       <<Lit("High-Level Report Findings"), Lit("5")>>,
       <<Lit("Aim and Importance"), Lit("9")>>,
       <<Lit("Considerations"), Lit("16")>> >>

contents ==
    << Paragraph(<<Lit("Document Contents Page")>>, "H2"),
       Table(contents_data),
       PageBreak >>

summary_section(business_name, email, website) ==
    << Paragraph(<<Lit("Summary")>>, "H2"),
       Paragraph(<< Lit("A cyber security health check has been carried out and this report shows the associated findings.<br/><br/><b>Business name:</b> "),
                    Fmt(business_name),
                    Lit("<br/><b>Email:</b> "), Fmt(email),
                    Lit("<br/><b>Website:</b> "), Fmt(website),
                    Lit("<br/><br/>Tests included in this generated report (based on the provided data files):<br/><br/>1. Email compromise (HaveIBeenPwned extract)<br/>2. Website TLS posture (SSL Labs extract)<br/>") >>,
                 "Body"),
       PageBreak >>

\* the fixed text of lines 346-387 is named by its first sentence
ncsc_section ==
    << Paragraph(<<Lit("Information to Support NCSC Early Warning")>>, "H2"),
       Paragraph(<<Lit("The National Cyber Security Centre (NCSC) is the UK's technical authority on cyber security, ...")>>, "Body"),
       PageBreak >>

hl_header ==
    << Paragraph(<<Lit("<b>#</b>")>>, "Body"),
       Paragraph(<<Lit("<b>Test</b>")>>, "Body"),
       Paragraph(<<Lit("<b>Result</b>")>>, "Body"),
       Paragraph(<<Lit("<b>Headline</b>")>>, "Body"),
       Paragraph(<<Lit("<b>Summary</b>")>>, "Body") >>

hl_row(f) ==
    << Paragraph(<<Fmt(VInt(f.number))>>, "Body"),
       Paragraph(<<Lit(f.title)>>, "Body"),
       Paragraph(<< Lit("<font color='"), Lit(hexval(_status_color(f.status))), Lit("'><b>"),
                    Lit(f.status), Lit("</b></font>") >>, "Body"),
       Paragraph(<<Lit(f.headline)>>, "Body"),
       Paragraph(<<Lit(f.summary)>>, "Body") >>

hl_rows(fs) == <<hl_header>> \o [i \in 1..Len(fs) |-> hl_row(fs[i])]

high_level(fs) ==
    << Paragraph(<<Lit("High-Level Report Findings")>>, "H2"),
       Table(hl_rows(fs)),
       PageBreak >>

\* the rows of the evidence table, had the pairs been taken last first
detail_rows_reversed(f) ==
    << <<Lit("Metric"), Lit("Value")>> >>
    \o [i \in 1..Len(f.details) |->
            << Lit(f.details[Len(f.details) + 1 - i][1]),
               f.details[Len(f.details) + 1 - i][2] >>]

\* [["Metric", "Value"]] + [[k, v] for (k, v) in f.details]
detail_rows(f) ==
    << <<Lit("Metric"), Lit("Value")>> >>
    \o [i \in 1..Len(f.details) |-> <<Lit(f.details[i][1]), f.details[i][2]>>]

\* the body of the loop over the findings without its last append
detail_block_no_break(f) ==
    << Paragraph(<<Fmt(VInt(f.number)), Lit(". "), Lit(f.title)>>, "H2"),
       Paragraph(<< Lit("<b>Result:</b> <font color='"), Lit(hexval(_status_color(f.status))),
                    Lit("'>"), Lit(f.status), Lit("</font> &nbsp;&nbsp;<b>"),
                    Lit(f.headline), Lit("</b>") >>, "Body"),
       Spacer,
       Paragraph(<<Lit(f.summary)>>, "Body"),
       Spacer,
       KeepTogether(Table(detail_rows(f))) >>

\* the body of the loop over the findings
detail_block(f) ==
    << Paragraph(<<Fmt(VInt(f.number)), Lit(". "), Lit(f.title)>>, "H2"),
       Paragraph(<< Lit("<b>Result:</b> <font color='"), Lit(hexval(_status_color(f.status))),
                    Lit("'>"), Lit(f.status), Lit("</font> &nbsp;&nbsp;<b>"),
                    Lit(f.headline), Lit("</b>") >>, "Body"),
       Spacer,
       Paragraph(<<Lit(f.summary)>>, "Body"),
       Spacer,
       KeepTogether(Table(detail_rows(f))),
       PageBreak >>

RECURSIVE detail_blocks(_)
detail_blocks(fs) ==
    IF Len(fs) = 0 THEN <<>> ELSE detail_block(Head(fs)) \o detail_blocks(Tail(fs))

\* the fixed text of lines 502-676 is named by its first sentence
aim_section ==
    << Paragraph(<<Lit("Aim and Importance")>>, "H2"),
       Paragraph(<<Lit("The aim of the health check is to raise awareness of the cyber security related risks ...")>>, "Body"),
       PageBreak >>

considerations ==
    << Paragraph(<<Lit("Considerations")>>, "H2"),
       Paragraph(<<Lit(" <b>If any of the above test have failed - you may need to:</b> ...")>>, "Body") >>

\* the story with the detail blocks put before the findings table
story_details_first(business_name, email, website, fs) ==
    cover(business_name) \o contents \o summary_section(business_name, email, website)
    \o ncsc_section \o detail_blocks(fs) \o high_level(fs) \o aim_section \o considerations

\* the flowables appended to story, in order
story(business_name, email, website, fs) ==
    cover(business_name) \o contents \o summary_section(business_name, email, website)
    \o ncsc_section \o high_level(fs) \o detail_blocks(fs) \o aim_section \o considerations

(***************************************************************************)
(* Page decoration and pagination.  disk is the file system: a path gives  *)
(* "absent", "garbage" or the name of the image stored there.  A canvas is *)
(* the sequence of the drawing calls made on a page.                       *)
(***************************************************************************)
Readable(disk, path) ==
    /\ path \in DOMAIN disk
    /\ disk[path] \notin {"absent", "garbage"}

\* the logo block without its try / except
draw_logo_unguarded(logo_path, disk) ==
    IF ~Truthy(logo_path) THEN [ok |-> TRUE, ops |-> <<>>]
    ELSE IF Readable(disk, logo_path.s)
    THEN [ok |-> TRUE, ops |-> <<[op |-> "drawImage", image |-> disk[logo_path.s]]>>]
    ELSE Raise("OSError")

\* if logo_path: try: ImageReader, drawImage  except Exception: pass
draw_logo(logo_path, disk) ==
    IF ~Truthy(logo_path) THEN [ok |-> TRUE, ops |-> <<>>]
    ELSE IF Readable(disk, logo_path.s)
    THEN [ok |-> TRUE, ops |-> <<[op |-> "drawImage", image |-> disk[logo_path.s]]>>]
    ELSE [ok |-> TRUE, ops |-> <<>>]

footer(page, last_reviewed) ==
    << [op |-> "drawString", text |-> <<Lit("Last Reviewed: "), Fmt(last_reviewed)>>],
       [op |-> "drawString", text |-> <<Lit("Document Owner: RB Consultancy Ltd")>>],
       [op |-> "drawRightString", text |-> <<Lit("Page "), Fmt(VInt(page))>>] >>

\* the drawing calls of _draw_header_footer on the page doc.page
_draw_header_footer(page, report_title, classification, last_reviewed, logo_path, disk) ==
    LET logo == draw_logo(logo_path, disk)
    IN IF ~logo.ok THEN logo
       ELSE [ok |-> TRUE,
             ops |-> logo.ops
                     \o << [op |-> "drawRightString", text |-> report_title],
                           [op |-> "drawRightString",
                            text |-> <<Lit("Version: 1.0  Classification: "), Fmt(classification)>>] >>
                     \o footer(page, last_reviewed)]

\* the layout engine: the flowables are placed in order; a PageBreak ends the
\* page, and the next page begins when a flowable follows.  spill is the set of
\* the flowables that do not fit in what is left of their page: a KeepTogether
\* moves to a new page, anything else begins where it is and runs on to a new
\* page.  A page is the sequence of the places in the story of the flowables
\* that begin on it.
RECURSIVE lay_out(_, _, _, _, _, _)
lay_out(flowables, i, pages, current, open, spill) ==
    IF i > Len(flowables)
    THEN IF open THEN Append(pages, current) ELSE pages
    ELSE IF flowables[i].kind = "PageBreak"
    THEN lay_out(flowables, i + 1, Append(pages, current), <<>>, FALSE, spill)
    ELSE IF i \in spill /\ flowables[i].kind = "KeepTogether" /\ current # <<>>
    THEN lay_out(flowables, i + 1, Append(pages, current), <<i>>, TRUE, spill)
    ELSE IF i \in spill /\ flowables[i].kind # "KeepTogether"
    THEN lay_out(flowables, i + 1, Append(pages, Append(current, i)), <<>>, TRUE, spill)
    ELSE lay_out(flowables, i + 1, pages, Append(current, i), TRUE, spill)

\* the page callbacks with onLaterPages left out
canvas_first_only(page, report_title, classification, last_reviewed, logo_path, disk) ==
    IF page = 1
    THEN _draw_header_footer(page, report_title, classification, last_reviewed, logo_path, disk)
    ELSE [ok |-> TRUE, ops |-> <<>>]

\* onFirstPage=on_page, onLaterPages=on_page
on_page(page, report_title, classification, last_reviewed, logo_path, disk) ==
    IF page = 1
    THEN _draw_header_footer(page, report_title, classification, last_reviewed, logo_path, disk)
    ELSE _draw_header_footer(page, report_title, classification, last_reviewed, logo_path, disk)

\* doc.build(story, ...): the pages, each with the flowables begun on it and
\* its canvas; geometry.fault is a fault of the layout engine on this story
doc_build(flowables, geometry, report_title, classification, last_reviewed, logo_path, disk) ==
    LET laid == lay_out(flowables, 1, <<>>, <<>>, FALSE, geometry.spill)
        drawn == [k \in 1..Len(laid) |->
                     on_page(k, report_title, classification, last_reviewed, logo_path, disk)]
    IN IF geometry.fault THEN Raise("LayoutError")
       ELSE IF \E k \in 1..Len(laid) : ~drawn[k].ok
       THEN Raise(drawn[CHOOSE k \in 1..Len(laid) : ~drawn[k].ok].err)
       ELSE [ok |-> TRUE,
             v |-> [story |-> flowables,
                    pages |-> [k \in 1..Len(laid) |->
                                  [number |-> k, begun |-> laid[k], canvas |-> drawn[k].ops]]]]

\* last_reviewed = today whatever the caller passed
effective_last_reviewed_today(last_reviewed, day) == VStr(day)

\* last_reviewed or date.today().strftime("%d/%m/%Y")
effective_last_reviewed(last_reviewed, day) == Or(last_reviewed, VStr(day))

\* generate_pdf_bytes after build_findings
render(business_name, email, website, fs, classification, last_reviewed, logo_path, day, disk, geometry) ==
    doc_build(story(business_name, email, website, fs), geometry,
              <<Lit("Cyber Health Check Report "), Fmt(business_name)>>,
              classification, effective_last_reviewed(last_reviewed, day), logo_path, disk)

(***************************************************************************)
(* The uploaded extracts: JSON texts written from trees, with noise in     *)
(* front, padding, text after the object, and damaged copies.              *)
(***************************************************************************)
MaxDepth == 2

RECURSIVE JsonEscape(_)
JsonEscape(s) ==
    IF Len(s) = 0 THEN <<>>
    ELSE (CASE s[1] = "\"" -> <<"\\", "\"">>
            [] s[1] = "\\" -> <<"\\", "\\">>
            [] s[1] = "\n" -> <<"\\", "n">>
            [] OTHER -> <<s[1]>>) \o JsonEscape(Tail(s))

JsonQuote(s) == <<"\"">> \o JsonEscape(s) \o <<"\"">>

\* the JSON text of a tree, without whitespace
RECURSIVE Ser(_)
Ser(v) ==
    CASE v.t = "none" -> <<"n", "u", "l", "l">>
      [] v.t = "bool" -> IF v.b THEN <<"t", "r", "u", "e">> ELSE <<"f", "a", "l", "s", "e">>
      [] v.t = "int" -> IntToStr(v.n)
      [] v.t = "str" -> JsonQuote(v.s)
      [] v.t = "list" ->
            <<"[">> \o Join(<<",">>, [i \in 1..Len(v.xs) |-> Ser(v.xs[i])]) \o <<"]">>
      [] v.t = "dict" ->
            <<"{">> \o Join(<<",">>,
                           [i \in 1..Len(v.kv) |->
                               JsonQuote(v.kv[i][1]) \o <<":">> \o Ser(v.kv[i][2])])
                   \o <<"}">>

\* the same text with a space around every structural character outside a
\* string literal
RECURSIVE Pad(_, _)
Pad(s, inStr) ==
    IF Len(s) = 0 THEN <<>>
    ELSE IF inStr /\ s[1] = "\\" /\ Len(s) > 1
         THEN <<s[1], s[2]>> \o Pad(Tail(Tail(s)), inStr)
    ELSE IF s[1] = "\"" THEN <<s[1]>> \o Pad(Tail(s), ~inStr)
    ELSE IF ~inStr /\ s[1] \in {"{", "}", "[", "]", ":", ","}
         THEN <<" ", s[1], " ">> \o Pad(Tail(s), inStr)
    ELSE <<s[1]>> \o Pad(Tail(s), inStr)

\* every copy of s with one character left out
Drops(s) == {SubSeq(s, 1, i - 1) \o SubSeq(s, i + 1, Len(s)) : i \in 1..Len(s)}

K_a == <<"a">>
K_b == <<"b">>
S_12345 == <<"1", "2", "3", "4", "5">>
S_abc == <<"a", "b", "c">>
S_day == <<"2", "0", "2", "4", "-", "0", "1", "-", "0", "1">>
NoiseLine == <<"n", "o", "i", "s", "e", "\n">>

D1(k, v) == VDict(<< <<k, v>> >>)
D2(k, v, l, w) == VDict(<< <<k, v>>, <<l, w>> >>)

Leaves ==
    { VStr(S_12345), VStr(S_abc), VStr(S_day), VStr(<<"-", "7">>), VStr(<<" ", "4", "2">>),
      VStr(<<"1", "_", "0">>), VStr(<<"{", "x">>), VInt(7), VBool(TRUE), VNone }

\* a level of nesting around the trees of S: the two wrappers, a wrapper name
\* beside a sibling key, a plain mapping, a sequence
Grow(S) ==
    UNION { { D1(K_date, x), D1(K_numberLong, x),
              D2(K_date, x, K_a, VInt(1)), D2(K_a, VInt(1), K_numberLong, x),
              D1(K_a, x), VList(<<VInt(1), x>>) } : x \in S }

RECURSIVE Trees(_)
Trees(d) == IF d = 0 THEN Leaves ELSE Leaves \cup Grow(Trees(d - 1))

Prefixes == { <<>>, NoiseLine, <<"#", "{", "\n">>, <<" ">> }
Suffixes == { <<>>, <<"\n">>, <<"x">> }

\* texts with a key written twice
TwiceTexts ==
    { <<"{">> \o JsonQuote(k) \o <<":">> \o Ser(VStr(S_abc)) \o <<",">>
            \o JsonQuote(l) \o <<":">> \o Ser(VInt(7)) \o <<",">>
            \o JsonQuote(k) \o <<":">> \o Ser(VStr(S_12345)) \o <<"}">>
        : k \in {K_a, K_date, K_numberLong}, l \in {K_a, K_b} }

DamagedBases ==
    { Ser(D2(K_a, VList(<<VInt(10), VStr(S_abc)>>), K_b, D1(K_date, VStr(S_day)))),
      Ser(D2(K_a, VNone, K_b, VBool(FALSE))),
      NoiseLine \o Ser(D1(K_numberLong, VStr(S_12345))) }

GenericTexts ==
    { Ser(x) : x \in Trees(MaxDepth) }
    \cup { pre \o Ser(x) \o post : pre \in Prefixes, post \in Suffixes, x \in Trees(1) }
    \cup { Pad(Ser(x), FALSE) : x \in Trees(1) }
    \cup TwiceTexts
    \cup UNION { Drops(t) : t \in DamagedBases }
    \cup { Ser(D1(K_scanned_at, D1(K_date, D1(K_numberLong, VStr(S_12345))))) }

T_empty == <<"{", "}">>

(***************************************************************************)
(* HIBP and SSL Labs extracts: every field absent, present with a value of *)
(* the expected type, or present with null or a value of another type.     *)
(* Nil in a field's place leaves the field out.                            *)
(***************************************************************************)
MaxBreaches == 2
MaxProtocols == 2

Nil == [t |-> "unset"]

Present(e) == e[2] # Nil

\* the mapping of the fields that are present, in the order given
Mk(fields) == VDict(SelectSeq(fields, Present))

\* the sequences over S of length at most n
RECURSIVE SeqsUpTo(_, _)
SeqsUpTo(S, n) ==
    IF n = 0 THEN {<<>>}
    ELSE LET shorter == SeqsUpTo(S, n - 1)
         IN shorter \cup {Append(q, x) : q \in shorter, x \in S}

S_no == <<"n", "o">>
S_Adobe == <<"A", "d", "o", "b", "e">>
S_LinkedIn == <<"L", "i", "n", "k", "e", "d", "I", "n">>
S_mail == <<"a", "@", "b", ".", "c">>
S_site == <<"e", "x", ".", "c", "o", "m">>
S_hostname == <<"h", ".", "i", "o">>
S_ip == <<"1", "0", ".", "0", ".", "0", ".", "1">>
S_12 == <<"1", ".", "2">>
S_13 == <<"1", ".", "3">>
S_30 == <<"3", ".", "0">>
S_SSL == <<"S", "S", "L">>
K_Title == <<"T", "i", "t", "l", "e">>

PwnedOpts ==
    { Nil, VBool(TRUE), VBool(FALSE), VNone, VInt(1), VInt(0), VStr(S_no), VStr(<<>>) }

CountOpts ==
    { Nil, VInt(2), D1(K_numberLong, VStr(<<"3">>)), VNone, VStr(<<"4">>), VStr(<<"x">>),
      VList(<<VInt(1)>>) }

SummaryOpts ==
    { Mk(<< <<K_is_pwned, p>>, <<K_breaches_found, b>>, <<K_pastes_found, q>> >>)
        : p \in PwnedOpts, b \in CountOpts, q \in {Nil, VInt(0), VInt(5)} }
    \cup { Nil, VNone, VStr(S_abc), VList(<<>>), VInt(3) }

BreachPool ==
    { D1(K_Name, VStr(S_Adobe)), D1(K_Name, VStr(S_LinkedIn)), D1(K_Title, VStr(S_abc)),
      D1(K_Name, VStr(<<>>)), D1(K_Name, VNone), D1(K_Name, VInt(5)), VStr(S_abc) }

BreachesOpts ==
    { VList(q) : q \in SeqsUpTo(BreachPool, MaxBreaches) }
    \cup { Nil, VNone, VStr(S_abc), VInt(5), VBool(TRUE), VInt(0), D1(K_Name, VStr(S_Adobe)) }

HibpRawOpts ==
    { Mk(<< <<K_breaches, b>> >>) : b \in BreachesOpts } \cup { Nil, VNone, VStr(S_abc), VList(<<>>) }

\* email and scanned_at: absent, as exported, null or of another type
HibpMetaOpts ==
    { <<Nil, Nil>>, <<VStr(S_mail), D1(K_date, VStr(S_day))>>, <<VNone, VInt(7)>> }

HibpDoc(summary, raw, meta) ==
    Mk(<< <<K_email, meta[1]>>, <<K_scanned_at, meta[2]>>,
          <<K_summary, summary>>, <<K_raw, raw>> >>)

HibpDocs ==
    { HibpDoc(sm, raw, meta)
        : sm \in SummaryOpts,
          raw \in {Nil, Mk(<< <<K_breaches, VList(<<D1(K_Name, VStr(S_Adobe))>>)>> >>)},
          meta \in HibpMetaOpts }
    \cup { HibpDoc(sm, raw, meta)
        : sm \in {Nil, Mk(<< <<K_is_pwned, VBool(TRUE)>>, <<K_breaches_found, VInt(2)>> >>)},
          raw \in HibpRawOpts,
          meta \in HibpMetaOpts }

GradeOpts ==
    { Nil, VStr(S_A), VStr(S_Aplus), VStr(<<"B">>), VStr(<<"F">>), VStr(<<"A", "-">>),
      VStr(S_NA), VStr(<<>>), VStr(<<"a", "+">>), VStr(<<" ", "A">>),
      VNone, VInt(0), VInt(5), VBool(FALSE), VList(<<VStr(S_A)>>), VDict(<<>>) }

DomainOpts == { Nil, VStr(S_site), VNone, VStr(<<>>) }

\* ip_address and scanned_at
SslMetaOpts == { <<Nil, Nil>>, <<VStr(S_ip), D1(K_date, VStr(S_day))>>, <<VNone, VInt(0)>> }

Protocol(name, version) == Mk(<< <<K_name, name>>, <<K_version, version>> >>)

ProtocolPool ==
    { Protocol(VStr(S_TLS), VStr(S_10)), Protocol(VStr(S_TLS), VStr(S_11)),
      Protocol(VStr(S_TLS), VStr(S_12)), Protocol(VStr(S_TLS), VStr(S_13)),
      Protocol(VStr(S_SSL), VStr(S_30)), Protocol(Nil, VStr(S_11)),
      Protocol(VStr(S_TLS), Nil), Protocol(VNone, VInt(1)), VStr(S_10) }

ProtocolsOpts ==
    { VList(q) : q \in SeqsUpTo(ProtocolPool, MaxProtocols) }
    \cup { Nil, VNone, VStr(S_10), VInt(5), VBool(TRUE), Protocol(VStr(S_TLS), VStr(S_10)) }

\* vulnBeast, ocspStapling, supportsRc4
FlagOpts ==
    { <<Nil, Nil, Nil>>, <<VBool(FALSE), VBool(TRUE), VBool(FALSE)>>,
      <<VNone, VInt(0), VStr(S_no)>> }

Details(protocols, flags) ==
    Mk(<< <<K_protocols, protocols>>, <<K_vulnBeast, flags[1]>>,
          <<K_ocspStapling, flags[2]>>, <<K_supportsRc4, flags[3]>> >>)

DetailsOpts ==
    { Details(pr, fl) : pr \in ProtocolsOpts, fl \in FlagOpts }
    \cup { Nil, VNone, VStr(S_abc), VList(<<VInt(1)>>), VInt(5) }

Endpoint(details) == Mk(<< <<K_details, details>> >>)

LegacyEndpoint == Endpoint(Details(VList(<<Protocol(VStr(S_TLS), VStr(S_10))>>), <<Nil, Nil, Nil>>))

EndpointsOpts ==
    { VList(<<Endpoint(d)>>) : d \in DetailsOpts }
    \cup { VList(<<Endpoint(Details(pr, <<Nil, Nil, Nil>>)), LegacyEndpoint>>)
            : pr \in {Nil, VList(<<>>), VList(<<Protocol(VStr(S_TLS), VStr(S_13))>>)} }
    \cup { Nil, VNone, VList(<<>>), VList(<<VNone>>), VList(<<VStr(S_abc), LegacyEndpoint>>),
           VStr(S_abc), VInt(5), VBool(TRUE), VDict(<<>>), D1(<<"0">>, LegacyEndpoint) }

SslRawOpts ==
    { Mk(<< <<K_host, h>>, <<K_endpoints, e>> >>) : h \in {Nil}, e \in EndpointsOpts }
    \cup { Nil, VNone, VStr(S_abc), VList(<<VInt(1)>>), VInt(0) }

SslDoc(grade, domain, meta, raw) ==
    Mk(<< <<K_domain, domain>>, <<K_ip_address, meta[1]>>, <<K_grade, grade>>,
          <<K_scanned_at, meta[2]>>, <<K_raw, raw>> >>)

SslDocs ==
    { SslDoc(g, d, meta, raw)
        : g \in GradeOpts, d \in DomainOpts, meta \in SslMetaOpts,
          raw \in {Nil, VNone, Mk(<< <<K_host, VStr(S_hostname)>> >>)} }
    \cup { SslDoc(g, VStr(S_site), <<Nil, Nil>>, raw)
        : g \in {Nil, VStr(S_Aplus)}, raw \in SslRawOpts }
    \cup { SslDoc(VStr(S_Aplus), d, <<VStr(S_ip), VStr(S_day)>>,
                   Mk(<< <<K_host, VStr(S_hostname)>>,
                         <<K_endpoints,
                           VList(<<Endpoint(Details(VList(<<Protocol(VStr(S_TLS), VStr(S_13))>>),
                                                    <<VBool(FALSE), VBool(TRUE), VBool(FALSE)>>)),
                                   LegacyEndpoint>>)>> >>))
        : d \in {Nil, VStr(<<>>)} }

(***************************************************************************)
(* The report inputs of the sidebar, the clock, the files and the layout.  *)
(***************************************************************************)
MaxReruns == 1

S_TBD == <<"T", "B", "D">>
S_Confidential == <<"C", "o", "n", "f", "i", "d", "e", "n", "t", "i", "a", "l">>
S_Public == <<"P", "u", "b", "l", "i", "c">>
S_RBCo == <<"R", "B", " ", "C", "o">>
S_reviewed == <<" ", "0", "1", "/", "0", "2", "/", "2", "0", "2", "4">>
S_today == <<"0", "3", "/", "1", "1", "/", "2", "0", "2", "6">>
S_tomorrow == <<"0", "4", "/", "1", "1", "/", "2", "0", "2", "6">>
DEFAULT_LOGO_PATH ==
    <<"a", "s", "s", "e", "t", "s", "/", "R", "B", "_", "l", "o", "g", "o", ".", "j", "p", "g">>
tmp_path_0 == <<"/", "t", "m", "p", "/", "t", "m", "p", "0", ".", "p", "n", "g">>
tmp_path_1 == <<"/", "t", "m", "p", "/", "t", "m", "p", "1", ".", "p", "n", "g">>
tmp_path_2 == <<"/", "t", "m", "p", "/", "t", "m", "p", "2", ".", "p", "n", "g">>

\* the temporary file holds what was uploaded
Files(uploaded) ==
    (DEFAULT_LOGO_PATH :> "RB logo") @@ (tmp_path_0 :> uploaded)
    @@ (tmp_path_1 :> "absent") @@ (tmp_path_2 :> "absent")

Request(business_name, classification, last_reviewed, logo_path) ==
    [business_name |-> VStr(business_name), email |-> VStr(S_mail), website |-> VStr(S_site),
     classification |-> VStr(classification), last_reviewed |-> VStr(last_reviewed),
     logo_path |-> logo_path]

\* the widgets as they are when nothing was typed
DefaultRequest ==
    [business_name |-> VStr(S_TBD), email |-> VStr(S_TBD), website |-> VStr(S_TBD),
     classification |-> VStr(S_Confidential), last_reviewed |-> VStr(<<>>),
     logo_path |-> VStr(DEFAULT_LOGO_PATH)]

Requests ==
    { Request(S_RBCo, S_Public, l, VNone) : l \in {<<>>, S_reviewed} }
    \cup { [Request(<<" ">>, S_Confidential, l, VNone)
                EXCEPT !.email = VStr(<<>>), !.website = VStr(<<" ", " ">>)]
            : l \in {<<>>, S_reviewed} }

\* no logo, the bundled logo, or an uploaded one: an image, not an image, or
\* a file no longer there
LogoOpts ==
    { <<VNone, Files("absent")>>, <<VStr(DEFAULT_LOGO_PATH), Files("absent")>>,
      <<VStr(tmp_path_0), Files("logo 0")>>, <<VStr(tmp_path_0), Files("garbage")>>,
      <<VStr(tmp_path_0), Files("absent")>> }

PlainLayout == [spill |-> {}, fault |-> FALSE]

\* everything fits; the two long fixed texts run on; the evidence table of the
\* first finding moves to a new page; the engine fails
Layouts ==
    { PlainLayout, [spill |-> {12, 39}, fault |-> FALSE],
      [spill |-> {22, 39}, fault |-> FALSE], [spill |-> {}, fault |-> TRUE] }

T_pwned ==
    Ser(HibpDoc(Mk(<< <<K_is_pwned, VBool(TRUE)>>, <<K_breaches_found, VInt(2)>> >>),
                Mk(<< <<K_breaches, VList(<<D1(K_Name, VStr(S_Adobe)),
                                            D1(K_Name, VStr(S_LinkedIn))>>)>> >>),
                <<VStr(S_mail), D1(K_date, VStr(S_day))>>))

T_modern ==
    Ser(SslDoc(VStr(S_Aplus), VStr(S_site), <<VStr(S_ip), D1(K_date, VStr(S_day))>>,
               Mk(<< <<K_endpoints,
                       VList(<<Endpoint(Details(VList(<<Protocol(VStr(S_TLS), VStr(S_12)),
                                                        Protocol(VStr(S_TLS), VStr(S_13))>>),
                                                <<VBool(FALSE), VBool(TRUE), VBool(FALSE)>>))>>)>> >>)))

T_legacy ==
    Ser(SslDoc(VStr(<<"B">>), Nil, <<Nil, Nil>>,
               Mk(<< <<K_endpoints, VList(<<LegacyEndpoint>>)>> >>)))

\* the uploads of a request: both empty objects, filled extracts, an extract
\* build_findings fails on, and an upload that does not parse
ReportTexts ==
    { <<T_empty, T_empty>>, <<T_pwned, T_modern>>, <<T_pwned, T_legacy>>,
      <<Ser(Mk(<< <<K_summary, VNone>> >>)), T_empty>>,
      <<<<"x">>, T_empty>>, <<T_empty, <<"{">>>> }

(***************************************************************************)
(* The report request of rbapp1.py: both uploads are parsed, then the      *)
(* report is generated; any exception ends the request.                    *)
(***************************************************************************)
InitGeneric ==
    /\ text_hibp \in GenericTexts
    /\ text_ssl \in {T_empty}

InitNoise ==
    /\ text_hibp \in { Ser(x) : x \in Trees(1) } \cup UNION { Drops(t) : t \in DamagedBases }
    /\ text_ssl = NoiseLine \o text_hibp

InitHibp ==
    /\ text_hibp \in { Ser(d) : d \in HibpDocs }
    /\ text_ssl \in {T_empty}

InitSsl ==
    /\ text_hibp \in {T_empty}
    /\ text_ssl \in { Ser(d) : d \in SslDocs }

Init ==
    /\ pc = "start"
    /\ hibp = Nil
    /\ ssl = Nil
    /\ findings = <<>>
    /\ error = ""
    /\ \/ InitGeneric
       \/ InitNoise
       \/ InitHibp
       \/ InitSsl
    /\ request = DefaultRequest
    /\ today = S_today
    /\ files = Files("absent")
    /\ layout = PlainLayout
    /\ pdf_bytes = Nil
    /\ download = Nil
    /\ history = <<>>
    /\ sessions = <<>>

\* hibp = load_json_from_text(hibp_text)
LoadHibp ==
    /\ pc = "start"
    /\ LET r == load_json_from_text(text_hibp)
       IN IF r.ok
          THEN /\ hibp' = r.v
               /\ pc' = "hibp_loaded"
               /\ error' = error
          ELSE /\ hibp' = hibp
               /\ pc' = "failed_hibp"
               /\ error' = r.err
    /\ UNCHANGED <<text_hibp, text_ssl, ssl, findings>>
    /\ UNCHANGED <<request, today, files, layout, pdf_bytes, download, history, sessions>>

\* ssl = load_json_from_text(ssl_text)
LoadSsl ==
    /\ pc = "hibp_loaded"
    /\ LET r == load_json_from_text(text_ssl)
       IN IF r.ok
          THEN /\ ssl' = r.v
               /\ pc' = "ssl_loaded"
               /\ error' = error
          ELSE /\ ssl' = ssl
               /\ pc' = "failed_ssl"
               /\ error' = r.err
    /\ UNCHANGED <<text_hibp, text_ssl, hibp, findings>>
    /\ UNCHANGED <<request, today, files, layout, pdf_bytes, download, history, sessions>>

\* findings = build_findings(hibp, ssl), the first step of generate_pdf_bytes
BuildFindings ==
    /\ pc = "ssl_loaded"
    /\ LET r == build_findings(hibp, ssl)
       IN IF r.ok
          THEN /\ findings' = r.v
               /\ pc' = "findings_built"
               /\ error' = error
          ELSE /\ findings' = findings
               /\ pc' = "failed_findings"
               /\ error' = r.err
    /\ UNCHANGED <<text_hibp, text_ssl, hibp, ssl>>
    /\ UNCHANGED <<request, today, files, layout, pdf_bytes, download, history, sessions>>

Next == LoadHibp \/ LoadSsl \/ BuildFindings

Spec == Init /\ [][Next]_vars

\* business_name.strip() or "TBD"
or_TBD(text) == Or(VStr(Strip(text.s)), VStr(S_TBD))

\* the caller passing None whatever was typed
last_reviewed_arg_none(text) == VNone

\* last_reviewed.strip() or None
last_reviewed_arg(text) == Or(VStr(Strip(text.s)), VNone)

\* s.replace(" ", "_")
replace_spaces(s) == [i \in 1..Len(s) |-> IF s[i] = " " THEN "_" ELSE s[i]]

\* f"Cyber_Health_Check_Report_{(business_name or 'TBD').replace(' ', '_')}.pdf"
file_name(business_name) ==
    << Lit("Cyber_Health_Check_Report_"),
       VStr(replace_spaces(Or(business_name, VStr(S_TBD)).s)),
       Lit(".pdf") >>

\* Render with the exception of doc.build swallowed: the story is offered
Render_swallowing ==
    /\ pc = "findings_built"
    /\ LET r == render(or_TBD(request.business_name), or_TBD(request.email),
                       or_TBD(request.website), findings, request.classification,
                       last_reviewed_arg(request.last_reviewed), request.logo_path,
                       today, files, layout)
           partial == IF r.ok THEN r.v ELSE [story |-> <<>>, pages |-> <<>>]
       IN /\ pdf_bytes' = partial
          /\ download' = [data |-> partial, file_name |-> file_name(request.business_name)]
          /\ pc' = "offered"
          /\ error' = error
    /\ UNCHANGED <<text_hibp, text_ssl, hibp, ssl, findings>>
    /\ UNCHANGED <<request, today, files, layout, history, sessions>>

\* the rest of generate_pdf_bytes, then st.download_button
Render ==
    /\ pc = "findings_built"
    /\ LET r == render(or_TBD(request.business_name), or_TBD(request.email),
                       or_TBD(request.website), findings, request.classification,
                       last_reviewed_arg(request.last_reviewed), request.logo_path,
                       today, files, layout)
       IN IF r.ok
          THEN /\ pdf_bytes' = r.v
               /\ download' = [data |-> r.v, file_name |-> file_name(request.business_name)]
               /\ pc' = "offered"
               /\ error' = error
          ELSE /\ pdf_bytes' = pdf_bytes
               /\ download' = download
               /\ pc' = "failed_render"
               /\ error' = r.err
    /\ UNCHANGED <<text_hibp, text_ssl, hibp, ssl, findings>>
    /\ UNCHANGED <<request, today, files, layout, history, sessions>>

Finished == pc \in {"failed_hibp", "failed_ssl", "failed_findings", "failed_render", "offered"}

\* the script runs again from its first line on the same widgets and uploads,
\* at the same date or a later one
Rerun ==
    /\ Finished
    /\ Len(history) < MaxReruns
    /\ history' = Append(history, [pc |-> pc, error |-> error, findings |-> findings,
                                   pdf_bytes |-> pdf_bytes, download |-> download,
                                   today |-> today])
    /\ today' \in {today, S_tomorrow}
    /\ pc' = "start"
    /\ hibp' = Nil
    /\ ssl' = Nil
    /\ findings' = <<>>
    /\ error' = ""
    /\ pdf_bytes' = Nil
    /\ download' = Nil
    /\ UNCHANGED <<text_hibp, text_ssl, request, files, layout, sessions>>

InitReport ==
    /\ pc = "start"
    /\ hibp = Nil
    /\ ssl = Nil
    /\ findings = <<>>
    /\ error = ""
    /\ \E t \in ReportTexts :
          /\ text_hibp = t[1]
          /\ text_ssl = t[2]
    /\ \E r \in Requests, l \in LogoOpts :
          /\ request = [r EXCEPT !.logo_path = l[1]]
          /\ files = l[2]
    /\ today = S_today
    /\ layout \in Layouts
    /\ pdf_bytes = Nil
    /\ download = Nil
    /\ history = <<>>
    /\ sessions = <<>>

NextReport == LoadHibp \/ LoadSsl \/ BuildFindings \/ Render \/ Rerun

SpecReport == InitReport /\ [][NextReport]_vars

(***************************************************************************)
(* Two sessions of the app at once.  Each has its own script run with its  *)
(* own locals; the file system and the clock are what they share.          *)
(***************************************************************************)
Session(business_name, upload, texts) ==
    [pc |-> "start", business_name |-> VStr(business_name), uploaded_logo |-> upload,
     text_hibp |-> texts[1], text_ssl |-> texts[2], logo_path |-> VNone, hibp |-> Nil,
     ssl |-> Nil, findings |-> <<>>, pdf_bytes |-> Nil, error |-> ""]

\* tempfile.mkstemp giving the same name to every caller
mkstemp_one_name(disk) == {tmp_path_1}

\* the names tempfile.mkstemp may give: those of no file that exists
mkstemp(disk) == { p \in {tmp_path_1, tmp_path_2} : disk[p] = "absent" }

\* logo_path = None, the bundled logo if it is there, and for an upload the
\* temporary file made for it (lines 27-36)
NameLogo(i) ==
    /\ sessions[i].pc = "start"
    /\ IF sessions[i].uploaded_logo = "none"
       THEN /\ sessions' = [sessions EXCEPT
                   ![i].logo_path = IF Readable(files, DEFAULT_LOGO_PATH)
                                    THEN VStr(DEFAULT_LOGO_PATH) ELSE VNone,
                   ![i].pc = "logo_ready"]
            /\ files' = files
       ELSE \E p \in mkstemp(files) :
               /\ files' = [files EXCEPT ![p] = "garbage"]
               /\ sessions' = [sessions EXCEPT ![i].logo_path = VStr(p),
                                               ![i].pc = "logo_named"]
    /\ UNCHANGED <<pc, text_hibp, text_ssl, hibp, ssl, findings, error>>
    /\ UNCHANGED <<request, today, layout, pdf_bytes, download, history>>

\* with open(tmp_path, "wb") as f: f.write(uploaded_logo.getbuffer())
WriteLogo(i) ==
    /\ sessions[i].pc = "logo_named"
    /\ files' = [files EXCEPT ![sessions[i].logo_path.s] = sessions[i].uploaded_logo]
    /\ sessions' = [sessions EXCEPT ![i].pc = "logo_ready"]
    /\ UNCHANGED <<pc, text_hibp, text_ssl, hibp, ssl, findings, error>>
    /\ UNCHANGED <<request, today, layout, pdf_bytes, download, history>>

\* the two calls of load_json_from_text
Parse(i) ==
    /\ sessions[i].pc = "logo_ready"
    /\ \E h \in {load_json_from_text(sessions[i].text_hibp)} :
       \E s \in {load_json_from_text(sessions[i].text_ssl)} :
          sessions' =
            IF ~h.ok THEN [sessions EXCEPT ![i].pc = "failed", ![i].error = h.err]
            ELSE IF ~s.ok
            THEN [sessions EXCEPT ![i].pc = "failed", ![i].error = s.err, ![i].hibp = h.v]
            ELSE [sessions EXCEPT ![i].pc = "parsed", ![i].hibp = h.v, ![i].ssl = s.v]
    /\ UNCHANGED <<pc, text_hibp, text_ssl, hibp, ssl, findings, error>>
    /\ UNCHANGED <<request, today, files, layout, pdf_bytes, download, history>>

\* generate_pdf_bytes with the session's values
Generate(i) ==
    /\ sessions[i].pc = "parsed"
    /\ \E f \in {build_findings(sessions[i].hibp, sessions[i].ssl)} :
          IF ~f.ok
          THEN sessions' = [sessions EXCEPT ![i].pc = "failed", ![i].error = f.err]
          ELSE \E r \in {render(sessions[i].business_name, VStr(S_TBD), VStr(S_TBD),
                                 f.v, VStr(S_Confidential), VNone,
                                 sessions[i].logo_path, today, files, PlainLayout)} :
                  sessions' =
                    IF ~r.ok
                    THEN [sessions EXCEPT ![i].pc = "failed", ![i].error = r.err,
                                          ![i].findings = f.v]
                    ELSE [sessions EXCEPT ![i].pc = "offered", ![i].findings = f.v,
                                          ![i].pdf_bytes = r.v]
    /\ UNCHANGED <<pc, text_hibp, text_ssl, hibp, ssl, findings, error>>
    /\ UNCHANGED <<request, today, files, layout, pdf_bytes, download, history>>

\* what each of the two operators uploads
SessionTexts ==
    { <<T_pwned, T_legacy>>, <<T_empty, T_modern>>,
      <<Ser(Mk(<< <<K_summary, VNone>> >>)), T_empty>>, <<T_empty, <<"{">>>> }

InitConcurrent ==
    /\ sessions \in
          { << Session(S_RBCo, u1, t1), Session(S_TBD, u2, t2) >>
              : u1 \in {"none", "logo 1", "garbage"}, u2 \in {"none", "logo 2"},
                t1 \in SessionTexts, t2 \in {<<T_empty, T_empty>>} }
    /\ files = Files("absent")
    /\ today = S_today
    /\ pc = "start"
    /\ text_hibp = T_empty
    /\ text_ssl = T_empty
    /\ hibp = Nil
    /\ ssl = Nil
    /\ findings = <<>>
    /\ error = ""
    /\ request = DefaultRequest
    /\ layout = PlainLayout
    /\ pdf_bytes = Nil
    /\ download = Nil
    /\ history = <<>>

NextConcurrent ==
    \/ \E i \in DOMAIN sessions : NameLogo(i)
    \/ \E i \in DOMAIN sessions : WriteLogo(i)
    \/ \E i \in DOMAIN sessions : Parse(i)
    \/ \E i \in DOMAIN sessions : Generate(i)

SpecConcurrent == InitConcurrent /\ [][NextConcurrent]_vars

(***************************************************************************)
(* Properties.                                                             *)
(***************************************************************************)
HasBrace(text) == \E i \in 1..Len(text) : text[i] = "{"

\* the text with every character before its first "{" discarded
FromFirstBrace(text) ==
    LET first == CHOOSE i \in 1..Len(text) :
                    text[i] = "{" /\ \A j \in 1..Len(text) : text[j] = "{" => i <= j
    IN [k \in 1..(Len(text) - first + 1) |-> text[first + k - 1]]

\* what the claims call the parsed input of a text that has a "{"
Parsed(text) == json_loads(FromFirstBrace(text))

HibpLoaded == pc \in {"hibp_loaded", "failed_ssl", "ssl_loaded", "findings_built", "failed_findings"}
SslLoaded == pc \in {"ssl_loaded", "findings_built", "failed_findings"}

\* the outcome the claim gives for a text: failure, or the normalized tree
LoadedAsClaimed(text, failed, doc) ==
    IF ~HasBrace(text) \/ ~Parsed(text).ok
    THEN failed /\ doc = Nil
    ELSE ~failed /\ doc = _normalize_extended_json(Parsed(text).v)

\* C1: load_json_from_text discards what precedes the first "{" and parses the
\* rest as JSON; it fails, returning no document, exactly when the text has no
\* "{" or the text from the first "{" on is not valid JSON, and in every other
\* case it returns the normalized tree.
C1_LoadOutcome ==
    /\ (HibpLoaded \/ pc = "failed_hibp") =>
            LoadedAsClaimed(text_hibp, pc = "failed_hibp", hibp)
    /\ (SslLoaded \/ pc = "failed_ssl") =>
            LoadedAsClaimed(text_ssl, pc = "failed_ssl", ssl)

C1_Witness ==
    /\ pc = "hibp_loaded"
    /\ MatchAt(text_hibp, 1, NoiseLine)
    /\ text_hibp[Len(NoiseLine) + 1] = "{"
    /\ IsDict(hibp)

IsWrapperOf(node, key) ==
    IsDict(node) /\ Len(node.kv) = 1 /\ node.kv[1][1] = key

\* in is a node of the parsed input that the rewrite reaches, out the node in
\* its place in the result.  The value of a wrapper is handed back as it is, so
\* the rewrite does not descend into it.
RECURSIVE UnwrappedAsClaimed(_, _)
UnwrappedAsClaimed(in, out) ==
    IF IsWrapperOf(in, K_date) THEN out = in.kv[1][2]
    ELSE IF IsWrapperOf(in, K_numberLong) THEN
        LET s == in.kv[1][2]
        IN /\ PyInt(s).ok => out = VInt(PyInt(s).n)
           /\ ~PyInt(s).ok => out = s
           /\ s = VStr(S_12345) => out = VInt(12345)
           /\ s = VStr(<<"-", "7">>) => out = VInt(0 - 7)
           /\ s = VStr(S_abc) => out = VStr(S_abc)
           /\ s = VNone => out = VNone
    ELSE IF IsDict(in) THEN
        /\ IsDict(out) /\ Len(out.kv) = Len(in.kv)
        /\ \A i \in 1..Len(in.kv) : UnwrappedAsClaimed(in.kv[i][2], out.kv[i][2])
    ELSE IF IsList(in) THEN
        /\ IsList(out) /\ Len(out.xs) = Len(in.xs)
        /\ \A i \in 1..Len(in.xs) : UnwrappedAsClaimed(in.xs[i], out.xs[i])
    ELSE TRUE

Keys(d) == [i \in 1..Len(d.kv) |-> d.kv[i][1]]

\* in is a node of the parsed input that the rewrite reaches, out the node in
\* its place in the result
RECURSIVE KeptAsClaimed(_, _)
KeptAsClaimed(in, out) ==
    IF IsWrapperOf(in, K_date) \/ IsWrapperOf(in, K_numberLong) THEN out # in
    ELSE IF IsDict(in) THEN
        /\ IsDict(out) /\ Keys(out) = Keys(in)
        /\ \A i \in 1..Len(in.kv) : KeptAsClaimed(in.kv[i][2], out.kv[i][2])
    ELSE IF IsList(in) THEN
        /\ IsList(out) /\ Len(out.xs) = Len(in.xs)
        /\ \A i \in 1..Len(in.xs) : KeptAsClaimed(in.xs[i], out.xs[i])
    ELSE out = in

NoWrapperKeys(text) == ~Contains(text, K_date) /\ ~Contains(text, K_numberLong)

\* C4: for a jsonText without reserved wrapper keys, loading "noise\n" + jsonText
\* has the outcome of loading jsonText: the same tree, or failure of both.
\* (text_ssl is the noisy copy of text_hibp.)
C4_NoiseTolerance ==
    (text_ssl = NoiseLine \o text_hibp /\ NoWrapperKeys(text_hibp)) =>
        /\ pc = "failed_hibp" => ~load_json_from_text(text_ssl).ok
        /\ pc # "failed_ssl"
        /\ SslLoaded => ssl = hibp

C4_Witness ==
    /\ pc = "ssl_loaded"
    /\ text_ssl = NoiseLine \o text_hibp
    /\ NoWrapperKeys(text_hibp)
    /\ IsDict(hibp) /\ Len(hibp.kv) = 2
    /\ ssl = hibp

FindingsBuilt == pc = "findings_built"

\* the value of the evidence pair of finding f with the given label
Ev(f, label) == f.details[CHOOSE i \in 1..Len(f.details) : f.details[i][1] = label][2]

\* d[k] when d is a mapping that has k, Nil when the field is absent
Field(d, k) == IF IsDict(d) /\ HasKey(d, k) THEN Item(d, k) ELSE Nil

\* hibp.summary.is_pwned, Nil when summary or is_pwned is absent
IsPwnedField == Field(Field(hibp, K_summary), K_is_pwned)

HeadlineFollowsStatus(f) ==
    /\ f.headline = "Bad News!" <=> f.status = "RISK"
    /\ f.headline = "Great News!" <=> f.status # "RISK"

\* C5 as stated: finding 1 is RISK if and only if hibp.summary.is_pwned is
\* true and PASS otherwise, also when summary or is_pwned is absent; its headline
\* is "Bad News!" iff the status is RISK, "Great News!" otherwise; it is never N/A.
C5_Original ==
    FindingsBuilt =>
        /\ findings[1].status = "RISK" <=> IsPwnedField = VBool(TRUE)
        /\ findings[1].status = "PASS" <=> IsPwnedField # VBool(TRUE)
        /\ HeadlineFollowsStatus(findings[1])
        /\ findings[1].status # "N/A"

\* C5 amended: finding 1 is RISK if and only if hibp.summary.is_pwned is
\* present and truthy (true, a number other than 0, a non-empty string, sequence
\* or mapping) and PASS otherwise, also when summary or is_pwned is absent; its
\* headline is "Bad News!" iff the status is RISK, "Great News!" otherwise; it
\* is never N/A.
C5_Amended ==
    FindingsBuilt =>
        /\ findings[1].status = "RISK" <=> (IsPwnedField # Nil /\ Truthy(IsPwnedField))
        /\ findings[1].status = "PASS" <=> ~(IsPwnedField # Nil /\ Truthy(IsPwnedField))
        /\ HeadlineFollowsStatus(findings[1])
        /\ findings[1].status # "N/A"

C5_Witness ==
    /\ FindingsBuilt
    /\ IsPwnedField = VStr(S_no)
    /\ findings[1].status = "RISK"
    /\ findings[1].headline = "Bad News!"

\* ssl.grade, Nil when absent
GradeField == Field(ssl, K_grade)

GoodGrade == GradeField \in {VStr(S_A), VStr(S_Aplus)}

\* C6 as stated: finding 2 is PASS if and only if ssl.grade is "A" or "A+", N/A
\* if and only if the grade is the default "N/A" (the grade is absent), and RISK
\* for every other grade value.
C6_Original ==
    FindingsBuilt =>
        /\ findings[2].status = "PASS" <=> GoodGrade
        /\ findings[2].status = "N/A" <=> (GradeField = Nil \/ GradeField = VStr(S_NA))
        /\ findings[2].status = "RISK" <=>
                (~GoodGrade /\ GradeField # Nil /\ GradeField # VStr(S_NA))

\* the grade is absent, or falsy (null, "", 0, false, an empty sequence or
\* mapping), or the string "N/A": the cases in which `ssl.get("grade") or "N/A"`
\* is "N/A"
GradeDefaults == GradeField = Nil \/ ~Truthy(GradeField) \/ GradeField = VStr(S_NA)

\* C6 amended: finding 2 is PASS if and only if ssl.grade is "A" or "A+", N/A
\* if and only if the grade after defaulting is "N/A" (the grade is absent, null,
\* empty or otherwise falsy, or is the string "N/A"), and RISK for every other
\* grade value.
C6_Amended ==
    FindingsBuilt =>
        /\ findings[2].status = "PASS" <=> GoodGrade
        /\ findings[2].status = "N/A" <=> GradeDefaults
        /\ findings[2].status = "RISK" <=> (~GoodGrade /\ ~GradeDefaults)

C6_Witness ==
    /\ FindingsBuilt
    /\ GradeField = VStr(<<>>)
    /\ findings[2].status = "N/A"

\* d[k] when d is a mapping that has k with a value of the given kind
FieldOfKind(d, k, kind) == IF Field(d, k) # Nil /\ Field(d, k).t = kind THEN Field(d, k) ELSE Nil

\* the mapping entries of the first endpoint's details.protocols
FirstEndpointProtocols ==
    LET eps == FieldOfKind(FieldOfKind(ssl, K_raw, "dict"), K_endpoints, "list")
        ep0 == IF eps = Nil \/ Len(eps.xs) = 0 THEN Nil ELSE eps.xs[1]
        prs == FieldOfKind(FieldOfKind(ep0, K_details, "dict"), K_protocols, "list")
    IN IF prs = Nil THEN <<>> ELSE SelectSeq(prs.xs, IsDict)

\* one "name version" string per such entry
ProtocolNameList ==
    [i \in 1..Len(FirstEndpointProtocols) |-> protocol_name(FirstEndpointProtocols[i])]

SomeLegacyName ==
    \E i \in 1..Len(ProtocolNameList) :
        Contains(ProtocolNameList[i], S_10) \/ Contains(ProtocolNameList[i], S_11)

\* C7: finding 3 is derived from the protocol-name list built for finding 2
\* (one "name version" string per mapping entry of the first endpoint's
\* details.protocols): N/A when the list is empty, also when there are no
\* endpoints; otherwise RISK if some name contains "1.0" or "1.1", PASS if none
\* does.
C7_LegacyTls ==
    FindingsBuilt =>
        /\ Ev(findings[2], "Supported protocols") =
                VStr(IF Len(ProtocolNameList) = 0 THEN S_NA
                     ELSE Join(S_CommaSpace, ProtocolNameList))
        /\ findings[3].status =
                (IF Len(ProtocolNameList) = 0 THEN "N/A"
                 ELSE IF SomeLegacyName THEN "RISK" ELSE "PASS")

C7_Witness ==
    /\ FindingsBuilt
    /\ Len(ProtocolNameList) = 2
    /\ ProtocolNameList[1] = S_TLS \o <<" ">> \o S_13
    /\ ProtocolNameList[2] = S_TLS \o <<" ">> \o S_11
    /\ findings[3].status = "RISK"

\* C8: whenever build_findings returns, it returns exactly three findings, in
\* the order Account compromise, Website encryption, legacy TLS downgrade,
\* numbered 1, 2, 3, each with a status among PASS, RISK, N/A.
C8_ThreeFindings ==
    FindingsBuilt =>
        /\ Len(findings) = 3
        /\ findings[1].title = "Account compromise"
        /\ findings[2].title = "Website encryption"
        /\ findings[3].title = "Website encryption downgrade (legacy TLS)"
        /\ \A i \in 1..Len(findings) :
                /\ findings[i].number = i
                /\ findings[i].status \in {"PASS", "RISK", "N/A"}

C8_Witness ==
    /\ FindingsBuilt
    /\ findings[1].status = "PASS"
    /\ findings[2].status = "RISK"
    /\ findings[3].status = "N/A"

\* field k of the mapping d is absent or holds a value of the given kind
AbsentOr(d, k, kind) == ~HasKey(d, k) \/ Item(d, k).t = kind

\* every optional field of the HIBP extract is absent or has its expected type
HibpConforming ==
    /\ IsDict(hibp)
    /\ AbsentOr(hibp, K_email, "str") /\ AbsentOr(hibp, K_scanned_at, "str")
    /\ AbsentOr(hibp, K_summary, "dict") /\ AbsentOr(hibp, K_raw, "dict")
    /\ HasKey(hibp, K_summary) =>
            /\ AbsentOr(Item(hibp, K_summary), K_is_pwned, "bool")
            /\ AbsentOr(Item(hibp, K_summary), K_breaches_found, "int")
            /\ AbsentOr(Item(hibp, K_summary), K_pastes_found, "int")
    /\ HasKey(hibp, K_raw) =>
            /\ AbsentOr(Item(hibp, K_raw), K_breaches, "list")
            /\ HasKey(Item(hibp, K_raw), K_breaches) =>
                    \A i \in 1..Len(Item(Item(hibp, K_raw), K_breaches).xs) :
                        LET b == Item(Item(hibp, K_raw), K_breaches).xs[i]
                        IN IsDict(b) /\ AbsentOr(b, K_Name, "str")

ProtocolConforming(p) ==
    IsDict(p) /\ AbsentOr(p, K_name, "str") /\ AbsentOr(p, K_version, "str")

DetailsConforming(d) ==
    /\ AbsentOr(d, K_vulnBeast, "bool") /\ AbsentOr(d, K_ocspStapling, "bool")
    /\ AbsentOr(d, K_supportsRc4, "bool") /\ AbsentOr(d, K_protocols, "list")
    /\ HasKey(d, K_protocols) =>
            \A i \in 1..Len(Item(d, K_protocols).xs) :
                ProtocolConforming(Item(d, K_protocols).xs[i])

EndpointConforming(ep) ==
    /\ IsDict(ep)
    /\ AbsentOr(ep, K_details, "dict")
    /\ HasKey(ep, K_details) => DetailsConforming(Item(ep, K_details))

\* every optional field of the SSL Labs extract is absent or has its expected type
SslConforming ==
    /\ IsDict(ssl)
    /\ AbsentOr(ssl, K_grade, "str") /\ AbsentOr(ssl, K_domain, "str")
    /\ AbsentOr(ssl, K_ip_address, "str") /\ AbsentOr(ssl, K_scanned_at, "str")
    /\ AbsentOr(ssl, K_raw, "dict")
    /\ HasKey(ssl, K_raw) =>
            /\ AbsentOr(Item(ssl, K_raw), K_host, "str")
            /\ AbsentOr(Item(ssl, K_raw), K_endpoints, "list")
            /\ HasKey(Item(ssl, K_raw), K_endpoints) =>
                    \A i \in 1..Len(Item(Item(ssl, K_raw), K_endpoints).xs) :
                        EndpointConforming(Item(Item(ssl, K_raw), K_endpoints).xs[i])

\* the first endpoint's details mapping, Nil when any field on the way is absent
FirstDetails ==
    LET eps == Field(Field(ssl, K_raw), K_endpoints)
    IN IF eps = Nil \/ Len(eps.xs) = 0 THEN Nil ELSE Field(eps.xs[1], K_details)

Absent(d, k) == Field(d, k) = Nil

\* the documented default stands in every evidence value whose field is absent
DefaultsSubstituted ==
    /\ Absent(hibp, K_email) => Ev(findings[1], "Email") = VStr(S_NA)
    /\ Absent(hibp, K_scanned_at) => Ev(findings[1], "Scan date") = VStr(S_NA)
    /\ Absent(Field(hibp, K_summary), K_breaches_found) =>
            Ev(findings[1], "Breaches found") = VStr(<<"0">>)
    /\ Absent(Field(hibp, K_summary), K_pastes_found) =>
            Ev(findings[1], "Pastes found") = VStr(<<"0">>)
    /\ Absent(Field(hibp, K_summary), K_is_pwned) => findings[1].status = "PASS"
    /\ Absent(Field(hibp, K_raw), K_breaches) => Ev(findings[1], "Breaches") = VStr(S_None)
    /\ Absent(ssl, K_grade) =>
            /\ Ev(findings[2], "Overall grade") = VStr(S_NA)
            /\ findings[2].status = "N/A"
    /\ (Absent(ssl, K_domain) /\ Absent(Field(ssl, K_raw), K_host)) =>
            Ev(findings[2], "Domain") = VStr(S_NA)
    /\ Absent(ssl, K_ip_address) => Ev(findings[2], "IP address") = VStr(S_NA)
    /\ Absent(ssl, K_scanned_at) => Ev(findings[2], "Scan date") = VStr(S_NA)
    /\ Absent(FirstDetails, K_protocols) =>
            /\ Ev(findings[2], "Supported protocols") = VStr(S_NA)
            /\ Ev(findings[3], "Supported protocols") = VStr(S_NA)
            /\ findings[3].status = "N/A"
    /\ Absent(FirstDetails, K_vulnBeast) =>
            Ev(findings[2], "BEAST vulnerability flag") = VStr(S_NA)
    /\ Absent(FirstDetails, K_ocspStapling) => Ev(findings[2], "OCSP stapling") = VStr(S_NA)
    /\ Absent(FirstDetails, K_supportsRc4) => Ev(findings[2], "RC4 supported") = VStr(S_NA)

\* C9: build_findings never fails on missing optional data: when every
\* optional field of hibp and ssl is absent or of its expected type, it returns
\* the three findings, with the documented default ("N/A", 0, false, empty
\* sequence) in the place of each absent field.
C9_MissingFieldsDefault ==
    (SslLoaded /\ HibpConforming /\ SslConforming) =>
        /\ pc # "failed_findings"
        /\ FindingsBuilt => (Len(findings) = 3 /\ DefaultsSubstituted)

C9_Witness ==
    /\ FindingsBuilt
    /\ HibpConforming /\ SslConforming
    /\ FirstDetails # Nil
    /\ HasKey(FirstDetails, K_protocols)
    /\ Absent(FirstDetails, K_vulnBeast)
    /\ Absent(ssl, K_grade)
    /\ Ev(findings[2], "BEAST vulnerability flag") = VStr(S_NA)

\* C10 as stated: the only failures of the normalize-then-derive path are the
\* two raised by the normalizer: on every pair of documents load_json_from_text
\* returns (any JSON object, its optional fields possibly null or of an
\* unexpected type), build_findings completes without raising.
C10_Original == (IsDict(hibp) /\ IsDict(ssl)) => pc # "failed_findings"
(***************************************************************************)
(* Properties of the report.                                               *)
(***************************************************************************)
Offered == pc = "offered"

\* the caller passes a last_reviewed string
Supplied == last_reviewed_arg(request.last_reviewed) # VNone

\* the run got as far as a list of findings
HasFindings(at) == at \in {"findings_built", "offered", "failed_render"}

\* C11: a run of the request on the same uploads and inputs as an earlier run,
\* at the same date or a later one, yields the same findings (number, title,
\* status, headline, summary and evidence pairs) as the earlier run and ends as
\* it ended; when last_reviewed is supplied the document rendered is the same
\* too.  Nothing the earlier run left changes the later one.
C11_Determinism ==
    \A h \in 1..Len(history) :
        /\ (HasFindings(pc) /\ HasFindings(history[h].pc)) => findings = history[h].findings
        /\ Finished => (pc = history[h].pc /\ error = history[h].error)
        /\ (Offered /\ Supplied) => pdf_bytes = history[h].pdf_bytes

C11_Witness ==
    /\ Len(history) = 1
    /\ Offered
    /\ Supplied
    /\ today # history[1].today
    /\ findings[1].status = "RISK"
    /\ findings = history[1].findings

\* the elements of a sequence
Range(q) == { q[i] : i \in 1..Len(q) }

\* the places of the story where a logical unit begins: the cover at the first
\* flowable, every other unit at its heading
UnitStarts(st) ==
    {1} \cup { i \in 1..Len(st) : st[i].kind = "Paragraph" /\ st[i].style = "H2" }

\* the places of S in increasing order
RECURSIVE Ascending(_)
Ascending(S) ==
    IF S = {} THEN <<>>
    ELSE LET least == CHOOSE x \in S : \A y \in S : x <= y
         IN <<least>> \o Ascending(S \ {least})

\* the unit that begins at place i: the cover, a section by its heading, or
\* the detail block of a finding
UnitName(st, i) ==
    IF i = 1 THEN "Cover"
    ELSE IF Len(st[i].text) = 1 THEN st[i].text[1].lit
    ELSE "Detail"

Units(st) ==
    LET starts == Ascending(UnitStarts(st))
    IN [k \in 1..Len(starts) |-> UnitName(st, starts[k])]

DetailNames == [k \in 1..Len(findings) |-> "Detail"]

\* the detail blocks are those of the findings, in their order
DetailsOfFindings(st) ==
    LET starts == Ascending({ i \in UnitStarts(st) : UnitName(st, i) = "Detail" })
    IN /\ Len(starts) = Len(findings)
       /\ \A k \in 1..Len(starts) :
            st[starts[k]].text = << Fmt(VInt(findings[k].number)), Lit(". "),
                                    Lit(findings[k].title) >>

\* a page break ends every unit that another unit follows, and there is no
\* other page break
BreakBetweenUnits(st) ==
    \A i \in 2..Len(st) :
        st[i - 1].kind = "PageBreak" <=> i \in UnitStarts(st)

\* every unit begins at the top of a page, and no page has two units beginning
OwnPage(doc) ==
    /\ \A u \in UnitStarts(doc.story) :
          \E p \in 1..Len(doc.pages) :
              doc.pages[p].begun # <<>> /\ doc.pages[p].begun[1] = u
    /\ \A p \in 1..Len(doc.pages) :
          Cardinality(Range(doc.pages[p].begun) \cap UnitStarts(doc.story)) <= 1

\* C12 as stated: the document consists of the units cover, contents, summary,
\* static informational section, high-level findings table, one detail block per
\* finding and closing considerations section, in this order; a forced page
\* break follows every unit (read: every unit that another follows), so that
\* one unit begins per page (read: no page has two units beginning).
C12_Original ==
    Offered =>
        /\ Units(pdf_bytes.story) =
              << "Cover", "Document Contents Page", "Summary",
                 "Information to Support NCSC Early Warning",
                 "High-Level Report Findings" >>
              \o DetailNames \o << "Considerations" >>
        /\ DetailsOfFindings(pdf_bytes.story)
        /\ BreakBetweenUnits(pdf_bytes.story)
        /\ OwnPage(pdf_bytes)

\* C12 amended: the document consists of the units cover, contents, summary,
\* static informational section, high-level findings table, one detail block per
\* finding in the order of the findings, the fixed Aim and Importance section
\* and the closing considerations section, in this order; a forced page break
\* follows every unit but the last and there is no other, so that every unit
\* begins at the top of a page and no page has two units beginning.
C12_SectionOrder ==
    Offered =>
        /\ Units(pdf_bytes.story) =
              << "Cover", "Document Contents Page", "Summary",
                 "Information to Support NCSC Early Warning",
                 "High-Level Report Findings" >>
              \o DetailNames \o << "Aim and Importance", "Considerations" >>
        /\ DetailsOfFindings(pdf_bytes.story)
        /\ BreakBetweenUnits(pdf_bytes.story)
        /\ pdf_bytes.story[Len(pdf_bytes.story)].kind # "PageBreak"
        /\ OwnPage(pdf_bytes)

\* a rendered document some of whose units run on to a second page
C12_Witness ==
    /\ Offered
    /\ Len(pdf_bytes.pages) > Len(Units(pdf_bytes.story))
    /\ Len(Units(pdf_bytes.story)) = 10

NumPageBreaks(st) == Cardinality({ i \in 1..Len(st) : st[i].kind = "PageBreak" })

\* the units that are there whatever the findings
FixedSectionCount(st) ==
    Cardinality({ i \in UnitStarts(st) : UnitName(st, i) # "Detail" })

\* C13 as stated: the number of forced page breaks of the document is the
\* number of its fixed sections plus the number of findings, whatever the inputs.
C13_Original ==
    Offered =>
        NumPageBreaks(pdf_bytes.story) = FixedSectionCount(pdf_bytes.story) + Len(findings)

\* C13 amended: the number of forced page breaks of the document is the number
\* of its fixed sections plus the number of findings less one (no break follows
\* the last section): six plus the number of findings, whatever the inputs.
C13_PageBreakCount ==
    Offered =>
        /\ NumPageBreaks(pdf_bytes.story)
              = FixedSectionCount(pdf_bytes.story) + Len(findings) - 1
        /\ NumPageBreaks(pdf_bytes.story) = 6 + Len(findings)

\* the breaks of a document with filled evidence tables and of an empty one
C13_Witness ==
    /\ Offered
    /\ NumPageBreaks(pdf_bytes.story) = 9
    /\ text_hibp = T_pwned
    /\ Len(history) = 1
    /\ history[1].pc = "offered"

\* the place of the first flowable of the given kind at or after place i
FirstOfKind(st, i, kind) ==
    CHOOSE j \in i..Len(st) :
        st[j].kind = kind /\ \A m \in i..(j - 1) : st[m].kind # kind

\* the place of the heading with the given text
HeadingPlace(st, heading) ==
    CHOOSE i \in UnitStarts(st) : UnitName(st, i) = heading

\* the rows of the high-level findings table
HighLevelRows(st) ==
    st[FirstOfKind(st, HeadingPlace(st, "High-Level Report Findings"), "Table")].rows

\* the rows of the evidence table of the k-th detail block
EvidenceRows(st, k) ==
    LET starts == Ascending({ i \in UnitStarts(st) : UnitName(st, i) = "Detail" })
    IN st[FirstOfKind(st, starts[k], "KeepTogether")].content.rows

\* the flowables of the k-th detail block
DetailBlock(st, k) ==
    LET starts == Ascending({ i \in UnitStarts(st) : UnitName(st, i) = "Detail" })
    IN SubSeq(st, starts[k], FirstOfKind(st, starts[k], "PageBreak"))

RowShows(row, f) ==
    /\ row[1].text = <<Fmt(VInt(f.number))>>
    /\ row[2].text = <<Lit(f.title)>>
    /\ row[3].text[4] = Lit(f.status)
    /\ row[4].text = <<Lit(f.headline)>>
    /\ row[5].text = <<Lit(f.summary)>>

\* C14: the high-level findings table has, after its header, one row per
\* finding in the order of the findings; the detail blocks are one per finding in
\* the same order; the evidence table of each block is the row (Metric, Value)
\* and then the finding's evidence pairs, label and value, in the order
\* build_findings gave them, none dropped, repeated or moved.
C14_OrderPreserved ==
    Offered =>
        /\ Len(HighLevelRows(pdf_bytes.story)) = Len(findings) + 1
        /\ \A k \in 1..Len(findings) :
              RowShows(HighLevelRows(pdf_bytes.story)[k + 1], findings[k])
        /\ DetailsOfFindings(pdf_bytes.story)
        /\ \A k \in 1..Len(findings) :
              LET rows == EvidenceRows(pdf_bytes.story, k)
              IN /\ Cardinality({ i \in DOMAIN DetailBlock(pdf_bytes.story, k) :
                                    DetailBlock(pdf_bytes.story, k)[i].kind = "KeepTogether" }) = 1
                 /\ Len(rows) = Len(findings[k].details) + 1
                 /\ rows[1] = <<Lit("Metric"), Lit("Value")>>
                 /\ \A i \in 1..Len(findings[k].details) :
                       rows[i + 1] = << Lit(findings[k].details[i][1]),
                                        findings[k].details[i][2] >>

\* a report on extracts that fill the evidence
C14_Witness ==
    /\ Offered
    /\ text_hibp = T_pwned
    /\ text_ssl = T_modern
    /\ Len(EvidenceRows(pdf_bytes.story, 2)) = 9
    /\ findings[2].status = "PASS"

IsText(o) == o.op # "drawImage"

\* the texts drawn on a canvas, in the order drawn
TextsDrawn(canvas) == SelectSeq(canvas, IsText)

ImagesDrawn(canvas) == SelectSeq(canvas, LAMBDA o : o.op = "drawImage")

\* the value the caller passes, or the date of the call when there is none
LastReviewedShown ==
    IF Supplied THEN last_reviewed_arg(request.last_reviewed) ELSE VStr(today)

\* the title, the classification line, the last-reviewed value, the document
\* owner and the page number
HeaderFooterOf(number) ==
    << [op |-> "drawRightString",
        text |-> <<Lit("Cyber Health Check Report "), or_TBD(request.business_name)>>],
       [op |-> "drawRightString",
        text |-> <<Lit("Version: 1.0  Classification: "), request.classification>>],
       [op |-> "drawString", text |-> <<Lit("Last Reviewed: "), LastReviewedShown>>],
       [op |-> "drawString", text |-> <<Lit("Document Owner: RB Consultancy Ltd")>>],
       [op |-> "drawRightString", text |-> <<Lit("Page "), VStr(IntToStr(number))>>] >>

\* C15: every physical page of the document, the first and each later one,
\* is decorated once and in the same way: its canvas has the report title, the
\* classification line, the last-reviewed value, the fixed document owner and
\* the page number, which is the engine's count of the pages: 1 on the first
\* page and one more on each next page.
C15_PageDecoration ==
    Offered =>
        \A p \in 1..Len(pdf_bytes.pages) :
            /\ pdf_bytes.pages[p].number = p
            /\ TextsDrawn(pdf_bytes.pages[p].canvas) = HeaderFooterOf(p)
            /\ ImagesDrawn(pdf_bytes.pages[p].canvas) = ImagesDrawn(pdf_bytes.pages[1].canvas)

\* a document of twelve pages, two of them continuation pages
C15_Witness ==
    /\ Offered
    /\ Len(pdf_bytes.pages) = 12
    /\ request.classification = VStr(S_Public)
    /\ TextsDrawn(pdf_bytes.pages[12].canvas) = HeaderFooterOf(12)

LogoDrawable ==
    Truthy(request.logo_path) /\ Readable(files, request.logo_path.s)

\* C16: no logo, a logo file that is not there and a logo file that is not an
\* image never end the rendering: generate_pdf_bytes fails only on a fault of
\* the layout engine, and on every page of the document it returns the logo is
\* drawn if it can be read and left out if not, with the title, classification,
\* last-reviewed value, owner and page number drawn either way.
C16_LogoFailureSwallowed ==
    /\ pc = "failed_render" => layout.fault
    /\ Offered =>
          \A p \in 1..Len(pdf_bytes.pages) :
              /\ Len(ImagesDrawn(pdf_bytes.pages[p].canvas)) = (IF LogoDrawable THEN 1 ELSE 0)
              /\ Len(TextsDrawn(pdf_bytes.pages[p].canvas)) = 5
              /\ TextsDrawn(pdf_bytes.pages[p].canvas)[5].text[2] = VStr(IntToStr(p))

\* a document rendered with an uploaded logo that is not an image
C16_Witness ==
    /\ Offered
    /\ request.logo_path = VStr(tmp_path_0)
    /\ files[tmp_path_0] = "garbage"
    /\ Len(pdf_bytes.pages) > 10
    /\ download # Nil

Failed == pc \in {"failed_hibp", "failed_ssl", "failed_findings", "failed_render"}

\* what a step of a run may do: each of normalize(HIBP), normalize(SSL), derive
\* and render starts where the one before it ended well, and ends well or fails
StepsOfARun ==
    { <<"start", "hibp_loaded">>, <<"start", "failed_hibp">>,
      <<"hibp_loaded", "ssl_loaded">>, <<"hibp_loaded", "failed_ssl">>,
      <<"ssl_loaded", "findings_built">>, <<"ssl_loaded", "failed_findings">>,
      <<"findings_built", "offered">>, <<"findings_built", "failed_render">> }

\* C17: within a run of the request the steps are normalize(HIBP),
\* normalize(SSL), derive findings, render, in this order, each begun only when
\* the one before it has returned and none run twice; a step that raises ends
\* the run: the error is shown, no document is held or offered for download,
\* and nothing more is done in that run; a document is offered only when all
\* four steps have returned, and it is the whole document.
C17_Pipeline ==
    /\ [](Failed => (error # "" /\ pdf_bytes = Nil /\ download = Nil))
    /\ [](Offered => /\ error = ""
                     /\ hibp # Nil /\ ssl # Nil /\ Len(findings) = 3
                     /\ download # Nil /\ download.data = pdf_bytes
                     /\ Len(pdf_bytes.pages) >= 10)
    /\ [](~Offered => download = Nil)
    /\ [][history' = history => <<pc, pc'>> \in StepsOfARun]_vars

\* a run ended by the layout engine after the three earlier steps
C17_Witness ==
    /\ pc = "failed_render"
    /\ error = "LayoutError"
    /\ Len(findings) = 3
    /\ download = Nil

(***************************************************************************)
(* Properties of two sessions at once.                                     *)
(***************************************************************************)
\* the file system of a session that runs alone
FilesAlone(i) ==
    IF sessions[i].uploaded_logo = "none" THEN Files("absent")
    ELSE [Files("absent") EXCEPT ![tmp_path_1] = sessions[i].uploaded_logo]

\* the outcome of a session that runs alone on the same inputs
Alone(i) ==
    LET h == load_json_from_text(sessions[i].text_hibp)
        s == load_json_from_text(sessions[i].text_ssl)
        f == build_findings(h.v, s.v)
        r == render(sessions[i].business_name, VStr(S_TBD), VStr(S_TBD), f.v,
                    VStr(S_Confidential), VNone,
                    IF sessions[i].uploaded_logo = "none"
                    THEN VStr(DEFAULT_LOGO_PATH) ELSE VStr(tmp_path_1),
                    today, FilesAlone(i), PlainLayout)
    IN IF ~h.ok THEN [pc |-> "failed", error |-> h.err, hibp |-> Nil, ssl |-> Nil,
                      findings |-> <<>>, pdf_bytes |-> Nil]
       ELSE IF ~s.ok THEN [pc |-> "failed", error |-> s.err, hibp |-> h.v, ssl |-> Nil,
                           findings |-> <<>>, pdf_bytes |-> Nil]
       ELSE IF ~f.ok THEN [pc |-> "failed", error |-> f.err, hibp |-> h.v, ssl |-> s.v,
                           findings |-> <<>>, pdf_bytes |-> Nil]
       ELSE IF ~r.ok THEN [pc |-> "failed", error |-> r.err, hibp |-> h.v, ssl |-> s.v,
                           findings |-> f.v, pdf_bytes |-> Nil]
       ELSE [pc |-> "offered", error |-> "", hibp |-> h.v, ssl |-> s.v,
             findings |-> f.v, pdf_bytes |-> r.v]

Ended(i) == sessions[i].pc \in {"failed", "offered"}

\* C18: whatever the other session does and however the steps of the two are
\* interleaved, a session ends as it ends when it runs alone: with the same
\* document trees, the same findings and the same document, logo included, or
\* with the same error.
C18_Isolation ==
    \A i \in DOMAIN sessions :
        Ended(i) =>
            /\ sessions[i].pc = Alone(i).pc
            /\ sessions[i].error = Alone(i).error
            /\ sessions[i].hibp = Alone(i).hibp
            /\ sessions[i].ssl = Alone(i).ssl
            /\ sessions[i].findings = Alone(i).findings
            /\ sessions[i].pdf_bytes = Alone(i).pdf_bytes

\* both sessions uploaded a logo and rendered, the second after the first had
\* written its file
C18_Witness ==
    /\ Len(sessions) = 2
    /\ sessions[1].pc = "offered"
    /\ sessions[2].pc = "offered"
    /\ sessions[1].uploaded_logo = "logo 1"
    /\ sessions[2].uploaded_logo = "logo 2"
    /\ sessions[1].logo_path = VStr(tmp_path_2)
    /\ sessions[1].pdf_bytes.pages[1].canvas[1] = [op |-> "drawImage", image |-> "logo 1"]
    /\ sessions[2].pdf_bytes.pages[1].canvas[1] = [op |-> "drawImage", image |-> "logo 2"]

(***************************************************************************)
(* The last-reviewed value.                                                *)
(***************************************************************************)
\* the drawing operations of a canvas that print the last-reviewed line
LastReviewedLines(canvas) ==
    SelectSeq(canvas, LAMBDA o : IsText(o) /\ o.text[1] = Lit("Last Reviewed: "))

\* a document without the last-reviewed line of its pages
WithoutLastReviewed(doc) ==
    [doc EXCEPT !.pages =
        [p \in 1..Len(doc.pages) |->
            [doc.pages[p] EXCEPT !.canvas =
                SelectSeq(doc.pages[p].canvas,
                          LAMBDA o : ~(IsText(o) /\ o.text[1] = Lit("Last Reviewed: ")))]]]

\* C19: every page of the document prints one last-reviewed line; its value is
\* the last_reviewed string of the caller when there is one and the date of the
\* call only when there is none.  A later call with the same arguments gives
\* the same document unless no last_reviewed was passed and the date changed,
\* and then the two documents differ in the last-reviewed lines only.
C19_LastReviewed ==
    /\ Offered =>
          \A p \in 1..Len(pdf_bytes.pages) :
              LET lines == LastReviewedLines(pdf_bytes.pages[p].canvas)
                  typed == Strip(request.last_reviewed.s)
              IN /\ Len(lines) = 1
                 /\ Len(lines[1].text) = 2
                 /\ typed # <<>> => lines[1].text[2] = VStr(typed)
                 /\ lines[1].text[2] = VStr(today) => (typed = <<>> \/ typed = today)
                 /\ typed = <<>> => lines[1].text[2] = VStr(today)
    /\ \A h \in 1..Len(history) :
          (Offered /\ history[h].pc = "offered") =>
              /\ WithoutLastReviewed(pdf_bytes) = WithoutLastReviewed(history[h].pdf_bytes)
              /\ pdf_bytes # history[h].pdf_bytes <=>
                    (Strip(request.last_reviewed.s) = <<>> /\ today # history[h].today)

\* no last_reviewed was typed, the date changed between two runs, and the second
\* document prints the new date on its pages where the first printed the old
C19_Witness ==
    /\ Len(history) = 1
    /\ Offered
    /\ history[1].pc = "offered"
    /\ request.last_reviewed.s = <<>>
    /\ today = S_tomorrow
    /\ history[1].today = S_today
    /\ Len(pdf_bytes.pages) > 1
    /\ LastReviewedLines(pdf_bytes.pages[2].canvas)[1].text[2] = VStr(S_tomorrow)
    /\ LastReviewedLines(history[1].pdf_bytes.pages[2].canvas)[1].text[2] = VStr(S_today)

(***************************************************************************)
(* Status, colour and headline.                                            *)
(***************************************************************************)
\* the colour named in the markup of a status: the text between the quotes
ColourShown(paragraph) == paragraph.text[2]

\* the Result line of the k-th detail block
ResultLine(st, k) == DetailBlock(st, k)[2]

\* statuses build_findings never gives
OtherStatuses == {"", "pass", "Risk", "N/A ", "WARN", "FAIL"}

Labels(f) == [i \in 1..Len(f.details) |-> f.details[i][1]]

\* the field when it is present and truthy, the string "N/A" otherwise
OrNA(field) == IF field # Nil /\ Truthy(field) THEN field ELSE VStr(S_NA)

\* the details mapping of the first endpoint, Nil when there is none
FirstEndpointDetails ==
    LET eps == FieldOfKind(FieldOfKind(ssl, K_raw, "dict"), K_endpoints, "list")
        ep0 == IF eps = Nil \/ Len(eps.xs) = 0 THEN Nil ELSE eps.xs[1]
    IN FieldOfKind(ep0, K_details, "dict")

\* the extract with the endpoints after the first taken away
FirstEndpointOnly(doc) ==
    LET eps == FieldOfKind(FieldOfKind(doc, K_raw, "dict"), K_endpoints, "list")
        cut(d, k, v) == VDict([i \in 1..Len(d.kv) |->
                                  IF d.kv[i][1] = k THEN <<k, v>> ELSE d.kv[i]])
    IN IF eps = Nil \/ Len(eps.xs) < 2 THEN doc
       ELSE cut(doc, K_raw, cut(Field(doc, K_raw), K_endpoints, VList(<<eps.xs[1]>>)))

\* C21: the evidence of finding 2 is, in this order, Domain (ssl.domain, else
\* ssl.raw.host, else "N/A"), IP address, Overall grade, Supported protocols
\* (the "name version" strings of the protocols of the first endpoint's details
\* joined by ", ", or "N/A" when there are none), the flags vulnBeast,
\* ocspStapling and supportsRc4, each the string of its value or "N/A" when it
\* is null or absent, and Scan date; the endpoints after the first change
\* nothing of it.
C21_Finding2Evidence ==
    FindingsBuilt =>
        /\ Labels(findings[2]) =
              << "Domain", "IP address", "Overall grade", "Supported protocols",
                 "BEAST vulnerability flag", "OCSP stapling", "RC4 supported", "Scan date" >>
        /\ findings[2].details[1][2] =
              (IF Field(ssl, K_domain) # Nil /\ Truthy(Field(ssl, K_domain))
               THEN Field(ssl, K_domain)
               ELSE OrNA(Field(Field(ssl, K_raw), K_host)))
        /\ findings[2].details[2][2] = OrNA(Field(ssl, K_ip_address))
        /\ findings[2].details[3][2] = VStr(PyStr(OrNA(Field(ssl, K_grade))))
        /\ findings[2].details[4][2] =
              VStr(IF Len(ProtocolNameList) = 0 THEN S_NA
                   ELSE Join(S_CommaSpace, ProtocolNameList))
        /\ \A i \in 1..3 :
              LET flag == Field(FirstEndpointDetails, <<K_vulnBeast, K_ocspStapling, K_supportsRc4>>[i])
              IN findings[2].details[4 + i][2] =
                    (IF flag = Nil \/ flag = VNone THEN VStr(S_NA) ELSE VStr(PyStr(flag)))
        /\ findings[2].details[8][2] = VStr(PyStr(OrNA(Field(ssl, K_scanned_at))))
        /\ build_findings(hibp, FirstEndpointOnly(ssl)) = [ok |-> TRUE, v |-> findings]

\* the domain is taken from raw.host; the first endpoint has TLS 1.3 and its
\* three flags, and a second endpoint with TLS 1.0 is there
C21_Witness ==
    /\ FindingsBuilt
    /\ Field(ssl, K_domain) = Nil
    /\ FirstEndpointOnly(ssl) # ssl
    /\ findings[2].details[1][2] = VStr(S_hostname)
    /\ findings[2].details[4][2] = VStr(S_TLS \o <<" ">> \o S_13)
    /\ findings[2].details[5][2] = VStr(S_False)
    /\ findings[2].details[6][2] = VStr(S_True)
    /\ findings[3].status = "PASS"

\* the field when it is present, the default otherwise
OrDefault(field, default) == IF field # Nil THEN field ELSE default

\* the entries of hibp.raw.breaches that are mappings with a non-empty Name
NamedBreaches ==
    LET bs == FieldOfKind(FieldOfKind(hibp, K_raw, "dict"), K_breaches, "list")
        named(b) == IsDict(b) /\ Field(b, K_Name) # Nil /\ Truthy(Field(b, K_Name))
    IN IF bs = Nil THEN <<>> ELSE SelectSeq(bs.xs, named)

\* a count of hibp.summary as a number: 0 when absent, null or otherwise falsy
CountField(k) ==
    LET c == Field(Field(hibp, K_summary), k)
    IN IF c = Nil \/ ~Truthy(c) THEN 0 ELSE PyInt(c).n

\* C22: the evidence of finding 1 is, in this order, Email (default "N/A"),
\* Breaches found and Pastes found (each default 0), Breaches and Scan date
\* (default "N/A"); the Breaches value is the Name of every mapping entry of
\* hibp.raw.breaches that has a non-empty Name, in input order, joined by ", ",
\* and is "None" when there is no such entry.
C22_Finding1Evidence ==
    FindingsBuilt =>
        /\ Labels(findings[1]) =
              <<"Email", "Breaches found", "Pastes found", "Breaches", "Scan date">>
        /\ findings[1].details[1][2] = VStr(PyStr(OrDefault(Field(hibp, K_email), VStr(S_NA))))
        /\ findings[1].details[2][2] = VStr(IntToStr(CountField(K_breaches_found)))
        /\ findings[1].details[3][2] = VStr(IntToStr(CountField(K_pastes_found)))
        /\ findings[1].details[4][2] =
              VStr(IF Len(NamedBreaches) = 0 THEN S_None
                   ELSE Join(S_CommaSpace,
                             [i \in 1..Len(NamedBreaches) |-> Item(NamedBreaches[i], K_Name).s]))
        /\ findings[1].details[5][2] =
              VStr(PyStr(OrDefault(Field(hibp, K_scanned_at), VStr(S_NA))))

\* two breaches with a Name around nothing else, the email and the date given
C22_Witness ==
    /\ FindingsBuilt
    /\ Len(NamedBreaches) = 2
    /\ findings[1].details[4][2] = VStr(S_LinkedIn \o S_CommaSpace \o S_Adobe)
    /\ findings[1].details[2][2] = VStr(<<"2">>)
    /\ findings[1].details[1][2] = VStr(S_mail)
    /\ findings[1].details[5][2] = VStr(S_day)

(***************************************************************************)
(* The names of the request and the name of the download.                 *)
(***************************************************************************)
\* what was typed with the blanks at its ends taken off, "TBD" if nothing is left
TrimmedOrTBD(typed) == IF Strip(typed.s) = <<>> THEN VStr(S_TBD) ELSE VStr(Strip(typed.s))

\* the business name, the email and the website the report prints are what was
\* typed, trimmed, and "TBD" when that is blank
DefaultsPrinted ==
    Offered =>
        /\ pdf_bytes.story[3].text = <<TrimmedOrTBD(request.business_name)>>
        /\ pdf_bytes.story[9].text[2] = TrimmedOrTBD(request.business_name)
        /\ pdf_bytes.story[9].text[4] = TrimmedOrTBD(request.email)
        /\ pdf_bytes.story[9].text[6] = TrimmedOrTBD(request.website)

\* C23: business name, email and website are printed trimmed, "TBD" when blank
\* after trimming; the name of the download is "Cyber_Health_Check_Report_",
\* then the business name with "_" for every space, then ".pdf", and the
\* business name in it is the one printed in the report (trimmed, "TBD" when
\* blank).
C23_Original ==
    /\ DefaultsPrinted
    /\ Offered =>
          download.file_name =
              << Lit("Cyber_Health_Check_Report_"),
                 VStr(replace_spaces(pdf_bytes.story[3].text[1].s)),
                 Lit(".pdf") >>

(***************************************************************************)
(* Normalization applied twice.                                            *)
(***************************************************************************)
\* the tree has, at some depth, a mapping whose only key is "$date" or
\* "$numberLong"
RECURSIVE HasWrapper(_)
HasWrapper(v) ==
    IF IsDict(v)
    THEN \/ is_wrapper(v, K_date)
         \/ is_wrapper(v, K_numberLong)
         \/ \E i \in 1..Len(v.kv) : HasWrapper(v.kv[i][2])
    ELSE IF IsList(v) THEN \E i \in 1..Len(v.xs) : HasWrapper(v.xs[i])
    ELSE FALSE

\* C24: normalizing the tree load_json_from_text returned gives that tree
\* again, and the tree has at no depth a mapping whose key set is exactly
\* {"$date"} or exactly {"$numberLong"}.
C24_Original ==
    /\ hibp # Nil => (_normalize_extended_json(hibp) = hibp /\ ~HasWrapper(hibp))
    /\ ssl # Nil => (_normalize_extended_json(ssl) = ssl /\ ~HasWrapper(ssl))

\* C25: the evidence of finding 3 agrees with its status and with finding 2:
\* the status is RISK if and only if the value of "TLS 1.0 supported" or of
\* "TLS 1.1 supported" is "True", it is N/A if and only if both values are
\* "N/A", and the "Supported protocols" value is the one of finding 2.
C25_Finding3Evidence ==
    FindingsBuilt =>
        LET tls10 == Ev(findings[3], "TLS 1.0 supported")
            tls11 == Ev(findings[3], "TLS 1.1 supported")
        IN /\ Labels(findings[3]) =
                 <<"TLS 1.0 supported", "TLS 1.1 supported", "Supported protocols">>
           /\ findings[3].status = "RISK" <=> (tls10 = VStr(S_True) \/ tls11 = VStr(S_True))
           /\ findings[3].status = "N/A" <=> (tls10 = VStr(S_NA) /\ tls11 = VStr(S_NA))
           /\ {tls10, tls11} \subseteq {VStr(S_True), VStr(S_False), VStr(S_NA)}
           /\ findings[3].details[3][2] = Ev(findings[2], "Supported protocols")

\* TLS 1.1 and not TLS 1.0 among the protocols: RISK, with the protocol string
\* of finding 2
C25_Witness ==
    /\ FindingsBuilt
    /\ findings[3].status = "RISK"
    /\ Ev(findings[3], "TLS 1.0 supported") = VStr(S_False)
    /\ Ev(findings[3], "TLS 1.1 supported") = VStr(S_True)
    /\ findings[3].details[3][2] = VStr(S_TLS \o <<" ">> \o S_13 \o S_CommaSpace \o S_TLS \o <<" ">> \o S_11)
    /\ findings[2].details[4][2] = findings[3].details[3][2]

(***************************************************************************)
(* The contents table and the pages.                                       *)
(***************************************************************************)
\* the page on which the flowable at place i begins
PageOf(doc, i) == CHOOSE p \in 1..Len(doc.pages) : i \in Range(doc.pages[p].begun)

\* the unit that begins at place u is followed by a unit that begins on the
\* next page: it occupies exactly one page
OnePage(doc, u) ==
    \E v \in UnitStarts(doc.story) :
        /\ v > u
        /\ \A w \in UnitStarts(doc.story) : ~(u < w /\ w < v)
        /\ PageOf(doc, v) = PageOf(doc, u) + 1

\* the decimal numeral of a page number
RECURSIVE Numeral(_)
Numeral(n) ==
    LET digit == <<"0", "1", "2", "3", "4", "5", "6", "7", "8", "9">>
    IN IF n < 10 THEN digit[n + 1] ELSE Numeral(n \div 10) \o digit[(n % 10) + 1]

\* the page number the contents table prints for a heading
ContentsNumber(st, heading) ==
    LET rows == st[FirstOfKind(st, HeadingPlace(st, "Document Contents Page"), "Table")].rows
    IN rows[CHOOSE r \in 1..Len(rows) : rows[r][1] = Lit(heading)][2].lit

\* C26: whenever every section and detail block before it occupies exactly one
\* page, each of Summary, Information to Support NCSC Early Warning, High-Level
\* Report Findings and Aim and Importance begins on the page the contents table
\* prints for it: 3, 4, 5 and 9; Considerations begins on a later page than Aim
\* and Importance.
C26_ContentsPages ==
    Offered =>
        /\ \A h \in { "Summary", "Information to Support NCSC Early Warning",
                      "High-Level Report Findings", "Aim and Importance" } :
              (\A u \in UnitStarts(pdf_bytes.story) :
                    u < HeadingPlace(pdf_bytes.story, h) => OnePage(pdf_bytes, u))
                 => /\ ContentsNumber(pdf_bytes.story, h) =
                          Numeral(PageOf(pdf_bytes, HeadingPlace(pdf_bytes.story, h)))
                    /\ PageOf(pdf_bytes, HeadingPlace(pdf_bytes.story, h)) =
                          (CASE h = "Summary" -> 3
                             [] h = "Information to Support NCSC Early Warning" -> 4
                             [] h = "High-Level Report Findings" -> 5
                             [] h = "Aim and Importance" -> 9)
        /\ PageOf(pdf_bytes, HeadingPlace(pdf_bytes.story, "Considerations"))
              > PageOf(pdf_bytes, HeadingPlace(pdf_bytes.story, "Aim and Importance"))

\* everything fits on its page: the three detail blocks are pages 6, 7 and 8,
\* Aim and Importance begins on page 9 as printed and Considerations on page 10
C26_Witness ==
    /\ Offered
    /\ layout = PlainLayout
    /\ Len(findings) = 3
    /\ \A u \in UnitStarts(pdf_bytes.story) :
          u < HeadingPlace(pdf_bytes.story, "Aim and Importance") => OnePage(pdf_bytes, u)
    /\ PageOf(pdf_bytes, HeadingPlace(pdf_bytes.story, "Aim and Importance")) = 9
    /\ ContentsNumber(pdf_bytes.story, "Aim and Importance") = "9"
    /\ PageOf(pdf_bytes, HeadingPlace(pdf_bytes.story, "Considerations")) = 10

====
